---- MODULE Spec2Model ----
(***************************************************************************)
(* Model of the two exercises of data_platform_challenge:                  *)
(*   exercicio1/event_validator.py    - the recursive event validator and   *)
(*                                      the handler that forwards valid     *)
(*                                      events to the queue;                *)
(*   exercicio2/json_schema_to_hive.py - the CREATE EXTERNAL TABLE builder. *)
(*                                                                         *)
(* Python values are modelled by what the code reads of them:              *)
(*   - a dict is a sequence of items [k |-> key, v |-> value] in insertion  *)
(*     order (keys distinct);                                               *)
(*   - a document value is a record [type |-> <python type name>, ...]:     *)
(*     a scalar carries its truthiness, a dict carries its items;           *)
(*   - a schema node is a record whose DOMAIN is the set of keys the JSON   *)
(*     object has among "type", "required", "properties", "description":    *)
(*     a missing key (KeyError) is a name outside the DOMAIN;               *)
(*   - a call that may raise returns [raised, ret, log].                    *)
(***************************************************************************)
EXTENDS Integers, Sequences, FiniteSets, TLC

VARIABLES
    pc,        \* position of the running handler / harness
    event,     \* exercicio1: the event handed to handler(event)
    validation,\* exercicio1: the event field of handler's Validation object
    schema_file,\* exercicio1: what is on disk as schema.json
    schema,    \* exercicio1: the schema node in use (None: not loaded)
    calls,     \* exercicio1: the calls handler has made so far, with results
    queue,     \* exercicio1: message bodies sent to "valid-events-queue"
    result,    \* result record of the last call of the function under check
    args       \* exercicio2: the arguments of Query.create_table

vars == <<pc, event, validation, schema_file, schema, calls, queue, result, args>>

-----------------------------------------------------------------------------
(* Python dicts as sequences of items in insertion order.                  *)

Item(k, v) == [k |-> k, v |-> v]

Keys(d) == {d[i].k : i \in 1..Len(d)}

HasKey(d, k) == \E i \in 1..Len(d) : d[i].k = k

Get(d, k) == d[CHOOSE i \in 1..Len(d) : d[i].k = k].v

Range(s) == {s[i] : i \in 1..Len(s)}

(* Python values of a document.                                            *)

None == [type |-> "NoneType"]

Scalar(t, truthy) == [type |-> t, truthy |-> truthy]

Dict(items) == [type |-> "dict", items |-> items]

\* bool(value): None is falsy, a dict is falsy iff empty, a scalar as recorded.
Truthy(v) ==
    CASE v.type = "NoneType" -> FALSE
      [] v.type = "dict"     -> v.items # <<>>
      [] OTHER               -> v.truthy

\* isinstance as if bool were not a subclass of int.
isinstance_exact_class(v, cls) == v.type = cls

\* isinstance(value, cls) for the classes of TYPE_MAPPING: bool is a subclass of int.
isinstance(v, cls) == v.type = cls \/ (cls = "int" /\ v.type = "bool")

\* A record handed to the logger.
Log(level, msg) == [level |-> level, msg |-> msg]

\* Result of a call: it raised, or it returned ret; log is what it logged.
Returned(ret, log) == [raised |-> FALSE, ret |-> ret, log |-> log]

Raised(exc, log) == [raised |-> TRUE, ret |-> exc, log |-> log]

ReturnedTrueOf(r) == ~r.raised /\ r.ret = TRUE

-----------------------------------------------------------------------------
(* exercicio1/event_validator.py                                           *)

\* TYPE_MAPPING without its entry for boolean.
TYPE_MAPPING_without_boolean == [string |-> "str", integer |-> "int", object |-> "dict"]

TYPE_MAPPING == [string |-> "str", integer |-> "int", object |-> "dict", boolean |-> "bool"]

\* _get_custom_type(custom_type, custom_type_mapping=None) of both classes, in
\* a module whose TYPE_MAPPING is module_TYPE_MAPPING.  a holds the arguments
\* given; a mapping is a function from custom types to type names.  `if not
\* custom_type_mapping` is true of None and of the empty mapping.  The result
\* is the type name, or None (logged) when the mapping has no entry.
get_custom_type(a, module_TYPE_MAPPING) ==
    LET custom_type_mapping ==
            IF \/ "custom_type_mapping" \notin DOMAIN a
               \/ DOMAIN a.custom_type_mapping = {}
            THEN module_TYPE_MAPPING
            ELSE a.custom_type_mapping
    IN  IF a.custom_type \in DOMAIN custom_type_mapping
        THEN Returned(custom_type_mapping[a.custom_type], <<>>)
        ELSE Returned("None", <<Log("ERROR", "custom type not found")>>)

\* Validation._get_custom_type(custom_type): the python class of the default mapping.
Validation_get_custom_type(custom_type) ==
    get_custom_type([custom_type |-> custom_type], TYPE_MAPPING)

validate_event_not_empty(self_event) ==
    IF ~Truthy(self_event)
    THEN Returned(FALSE, <<Log("ERROR", "empty event")>>)
    ELSE Returned(TRUE, <<Log("INFO", "event not empty")>>)

validate_event_data_structure(self_event) ==
    IF ~isinstance(self_event, "dict")
    THEN Returned(FALSE, <<Log("ERROR", "wrong data structure")>>)
    ELSE Returned(TRUE, <<Log("INFO", "data structure ok")>>)

\* compare_event_fields without the check for unregistered fields.
compare_event_fields_open_world(self_event, sch, ev) ==
    LET e == IF ~Truthy(ev) THEN self_event ELSE ev
    IN  IF "required" \notin DOMAIN sch
        THEN Returned(FALSE, <<Log("ERROR", "no required")>>)
        ELSE IF e.type # "dict"
        THEN Raised("AttributeError", <<>>)
        ELSE IF Range(sch.required) \ Keys(e.items) # {}
        THEN Returned(FALSE, <<Log("ERROR", "missing required fields")>>)
        ELSE Returned(TRUE, <<Log("INFO", "fields registered")>>)

\* compare_event_fields checking for unregistered fields before missing ones.
compare_event_fields_unregistered_first(self_event, sch, ev) ==
    LET e == IF ~Truthy(ev) THEN self_event ELSE ev
    IN  IF "required" \notin DOMAIN sch
        THEN Returned(FALSE, <<Log("ERROR", "no required")>>)
        ELSE IF e.type # "dict"
        THEN Raised("AttributeError", <<>>)
        ELSE LET required_fields == Range(sch.required)
                 events_fields == Keys(e.items)
                 missing_required_fields == required_fields \ events_fields
                 fields_not_required == events_fields \ required_fields
             IN  IF fields_not_required # {}
                 THEN Returned(FALSE, <<Log("ERROR", "unregistered fields")>>)
                 ELSE IF missing_required_fields # {}
                 THEN Returned(FALSE, <<Log("ERROR", "missing required fields")>>)
                 ELSE Returned(TRUE, <<Log("INFO", "fields registered")>>)

compare_event_fields(self_event, sch, ev) ==
    LET e == IF ~Truthy(ev) THEN self_event ELSE ev
    IN  IF "required" \notin DOMAIN sch
        THEN Returned(FALSE, <<Log("ERROR", "no required")>>)
        ELSE IF e.type # "dict"
        THEN Raised("AttributeError", <<>>)
        ELSE LET required_fields == Range(sch.required)
                 events_fields == Keys(e.items)
                 missing_required_fields == required_fields \ events_fields
                 fields_not_required == events_fields \ required_fields
             IN  IF missing_required_fields # {}
                 THEN Returned(FALSE, <<Log("ERROR", "missing required fields")>>)
                 ELSE IF fields_not_required # {}
                 THEN Returned(FALSE, <<Log("ERROR", "unregistered fields")>>)
                 ELSE Returned(TRUE, <<Log("INFO", "fields registered")>>)

RECURSIVE validate_event_content(_, _, _)
RECURSIVE content_loop(_, _, _, _, _)

\* The for loop going on to the sibling fields after a nested object was found
\* valid, instead of returning the nested result.
content_loop_checks_siblings(self_event, sch, e, i, log) ==
    IF i > Len(e.items)
    THEN Returned(TRUE, Append(log, Log("INFO", "content validated")))
    ELSE LET key == e.items[i].k
             value == e.items[i].v
         IN  IF \/ "properties" \notin DOMAIN sch
                \/ ~HasKey(sch.properties, key)
                \/ "type" \notin DOMAIN Get(sch.properties, key)
             THEN Raised("KeyError", log)
             ELSE LET t == Validation_get_custom_type(Get(sch.properties, key).type)
                      custom_type == t.ret
                      log1 == log \o t.log
                  IN  IF custom_type = "None"
                      THEN Returned(FALSE, log1)
                      ELSE IF ~isinstance(value, custom_type)
                      THEN Returned(FALSE, Append(log1, Log("ERROR", "type mismatch")))
                      ELSE IF isinstance(value, "dict")
                      THEN LET r == validate_event_content(
                                        self_event, Get(sch.properties, key), value)
                           IN  IF r.raised \/ ~r.ret
                               THEN [r EXCEPT !.log = log1 \o r.log]
                               ELSE content_loop(self_event, sch, e, i + 1, log1 \o r.log)
                      ELSE content_loop(self_event, sch, e, i + 1, log1)

\* The for loop of validate_event_content from item i on, having logged `log`.
content_loop(self_event, sch, e, i, log) ==
    IF i > Len(e.items)
    THEN Returned(TRUE, Append(log, Log("INFO", "content validated")))
    ELSE LET key == e.items[i].k
             value == e.items[i].v
         IN  IF \/ "properties" \notin DOMAIN sch
                \/ ~HasKey(sch.properties, key)
                \/ "type" \notin DOMAIN Get(sch.properties, key)
             THEN Raised("KeyError", log)
             ELSE LET t == Validation_get_custom_type(Get(sch.properties, key).type)
                      custom_type == t.ret
                      log1 == log \o t.log
                  IN  IF custom_type = "None"
                      THEN Returned(FALSE, log1)
                      ELSE IF ~isinstance(value, custom_type)
                      THEN Returned(FALSE, Append(log1, Log("ERROR", "type mismatch")))
                      ELSE IF isinstance(value, "dict")
                      THEN LET r == validate_event_content(
                                        self_event, Get(sch.properties, key), value)
                           IN  [r EXCEPT !.log = log1 \o r.log]
                      ELSE content_loop(self_event, sch, e, i + 1, log1)

validate_event_content(self_event, sch, ev) ==
    LET e == IF ~Truthy(ev) THEN self_event ELSE ev
        c == compare_event_fields(self_event, sch, e)
    IN  IF c.raised \/ ~c.ret
        THEN c
        ELSE content_loop(self_event, sch, e, 1, c.log)

\* read_schema: the parsed JSON, or None (logged) when the file is missing
\* or is not JSON.
read_schema(file) ==
    IF "json" \in DOMAIN file
    THEN Returned(file.json, <<>>)
    ELSE Returned(None, <<Log("ERROR", file.error)>>)

-----------------------------------------------------------------------------
(* exercicio2/json_schema_to_hive.py.  Texts are strings; a field map      *)
(* (col_params, partition_params) is a dict of field specs with "type",    *)
(* "description" and, for an object, "properties"; the arguments of        *)
(* create_table are a record whose DOMAIN holds tb_name, db_name (of the   *)
(* Query object) and the parameters that are not left to their default     *)
(* None.                                                                   *)

Query_TYPE_MAPPING ==
    [string |-> "varchar", integer |-> "tinyint", object |-> "struct", boolean |-> "boolean"]

\* Query._get_custom_type(custom_type): the column type of the default mapping.
Query_get_custom_type(custom_type) ==
    get_custom_type([custom_type |-> custom_type], Query_TYPE_MAPPING)

\* A python value of a property mapping, and str() of it as an f-string renders it.
PyValue(t, v) == [type |-> t, value |-> v]

\* str() rendering a boolean the way JSON writes it.
PyStr_json_boolean(v) ==
    CASE v.type = "str"  -> v.value
      [] v.type = "bool" -> IF v.value THEN "true" ELSE "false"
      [] v.type = "int"  -> ToString(v.value)

PyStr(v) ==
    CASE v.type = "str"  -> v.value
      [] v.type = "bool" -> IF v.value THEN "True" ELSE "False"
      [] v.type = "int"  -> ToString(v.value)

RECURSIVE JoinFrom(_, _, _)
JoinFrom(sep, texts, i) ==
    IF i > Len(texts) THEN ""
    ELSE IF i = Len(texts) THEN texts[i]
    ELSE texts[i] \o sep \o JoinFrom(sep, texts, i + 1)

\* sep.join(texts)
Join(sep, texts) == JoinFrom(sep, texts, 1)

RECURSIVE format_table_columns(_, _)
RECURSIVE format_columns_loop(_, _, _, _, _)

\* The for loop handing its own separator down to the nested field map
\* instead of ':'.
format_columns_loop_same_separator(col_dict, separator, i, col_data_list, log) ==
    IF i > Len(col_dict)
    THEN Returned(Join(",\n", col_data_list), log)
    ELSE LET key == col_dict[i].k
             value == col_dict[i].v
         IN  IF "type" \notin DOMAIN value
             THEN Raised("KeyError", log)
             ELSE LET t == Query_get_custom_type(value.type)
                      col_data == key \o separator \o " " \o t.ret
                      log1 == log \o t.log
                  IN  IF value.type = "object" /\ "properties" \notin DOMAIN value
                      THEN Raised("KeyError", log1)
                      ELSE LET obj == IF value.type = "object"
                                      THEN format_table_columns(value.properties, separator)
                                      ELSE Returned("", <<>>)
                               col_data2 == IF value.type = "object"
                                            THEN col_data \o " <" \o obj.ret \o ">"
                                            ELSE col_data
                               log2 == log1 \o obj.log
                           IN  IF obj.raised
                               THEN Raised(obj.ret, log2)
                               ELSE IF "description" \notin DOMAIN value
                               THEN Raised("KeyError", log2)
                               ELSE format_columns_loop(col_dict, separator, i + 1,
                                        Append(col_data_list,
                                            IF value.description # ""
                                            THEN col_data2 \o " COMMENT '"
                                                     \o value.description \o "'"
                                            ELSE col_data2),
                                        log2)

\* The for loop ending at the first field whose type the mapping does not
\* know, returning what it has rendered so far.
format_columns_loop_stops_at_unknown_type(col_dict, separator, i, col_data_list, log) ==
    IF i > Len(col_dict)
    THEN Returned(Join(",\n", col_data_list), log)
    ELSE LET key == col_dict[i].k
             value == col_dict[i].v
         IN  IF "type" \notin DOMAIN value
             THEN Raised("KeyError", log)
             ELSE LET t == Query_get_custom_type(value.type)
                      col_data == key \o separator \o " " \o t.ret
                      log1 == log \o t.log
                  IN  IF t.ret = "None"
                      THEN Returned(Join(",\n", col_data_list), log1)
                      ELSE IF value.type = "object" /\ "properties" \notin DOMAIN value
                      THEN Raised("KeyError", log1)
                      ELSE LET obj == IF value.type = "object"
                                      THEN format_table_columns(value.properties, ":")
                                      ELSE Returned("", <<>>)
                               col_data2 == IF value.type = "object"
                                            THEN col_data \o " <" \o obj.ret \o ">"
                                            ELSE col_data
                               log2 == log1 \o obj.log
                           IN  IF obj.raised
                               THEN Raised(obj.ret, log2)
                               ELSE IF "description" \notin DOMAIN value
                               THEN Raised("KeyError", log2)
                               ELSE format_columns_loop(col_dict, separator, i + 1,
                                        Append(col_data_list,
                                            IF value.description # ""
                                            THEN col_data2 \o " COMMENT '"
                                                     \o value.description \o "'"
                                            ELSE col_data2),
                                        log2)

\* The for loop of format_table_columns from item i on, with col_data_list
\* and the log so far.  The except NameError clauses catch no KeyError.
format_columns_loop(col_dict, separator, i, col_data_list, log) ==
    IF i > Len(col_dict)
    THEN Returned(Join(",\n", col_data_list), log)
    ELSE LET key == col_dict[i].k
             value == col_dict[i].v
         IN  IF "type" \notin DOMAIN value
             THEN Raised("KeyError", log)
             ELSE LET t == Query_get_custom_type(value.type)
                      col_data == key \o separator \o " " \o t.ret
                      log1 == log \o t.log
                  IN  IF value.type = "object" /\ "properties" \notin DOMAIN value
                      THEN Raised("KeyError", log1)
                      ELSE LET obj == IF value.type = "object"
                                      THEN format_table_columns(value.properties, ":")
                                      ELSE Returned("", <<>>)
                               col_data2 == IF value.type = "object"
                                            THEN col_data \o " <" \o obj.ret \o ">"
                                            ELSE col_data
                               log2 == log1 \o obj.log
                           IN  IF obj.raised
                               THEN Raised(obj.ret, log2)
                               ELSE IF "description" \notin DOMAIN value
                               THEN Raised("KeyError", log2)
                               ELSE format_columns_loop(col_dict, separator, i + 1,
                                        Append(col_data_list,
                                            IF value.description # ""
                                            THEN col_data2 \o " COMMENT '"
                                                     \o value.description \o "'"
                                            ELSE col_data2),
                                        log2)

format_table_columns(col_dict, separator) ==
    format_columns_loop(col_dict, separator, 1, <<>>, <<>>)

format_table_properties(tb_properties) ==
    Join(",", [i \in 1..Len(tb_properties) |->
                  "'" \o tb_properties[i].k \o "' = '" \o PyStr(tb_properties[i].v) \o "'"])

\* The query so far with one more clause appended and the clause logged.
\* clauses lists what was appended, by the keyword of the clause.
WithClause(q, clause, text) ==
    [q EXCEPT !.ret = @ \o text,
              !.clauses = Append(@, [clause |-> clause, text |-> text]),
              !.log = Append(@, Log("INFO", clause))]

\* A parameter was given a truthy value (not None, not empty, not zero).
Given(a, param, empty) == param \in DOMAIN a /\ a[param] # empty

\* The header naming the table before the database.
create_table_header_table_first(a) ==
    [raised |-> FALSE,
     ret |-> "CREATE EXTERNAL TABLE IF NOT EXISTS " \o a.tb_name \o "." \o a.db_name,
     clauses |-> <<>>,
     log |-> <<Log("INFO", "start"), Log("INFO", "name")>>]

create_table_header(a) ==
    [raised |-> FALSE,
     ret |-> "CREATE EXTERNAL TABLE IF NOT EXISTS " \o a.db_name \o "." \o a.tb_name,
     clauses |-> <<>>,
     log |-> <<Log("INFO", "start"), Log("INFO", "name")>>]

\* if col_params / if partition_params: the clause of a field map.
field_map_clause(q, a, param, clause, open) ==
    IF q.raised \/ ~Given(a, param, <<>>)
    THEN q
    ELSE LET f == format_table_columns(a[param], "")
         IN  IF f.raised
             THEN [q EXCEPT !.raised = TRUE, !.ret = f.ret, !.log = @ \o f.log]
             ELSE WithClause([q EXCEPT !.log = @ \o f.log], clause,
                             "\n" \o open \o f.ret \o ")")

\* if tb_desc / row_format / file_format / location: the clause of a text.
text_clause(q, a, param, clause, open, close) ==
    IF q.raised \/ ~Given(a, param, "")
    THEN q
    ELSE WithClause(q, clause, "\n" \o open \o a[param] \o close)

\* The clustering step skipping an incomplete configuration without a warning.
clustering_clause_silent(q, a) ==
    IF q.raised
       \/ ~(Given(a, "clustering_params", <<>>) /\ Given(a, "num_buckets", 0))
    THEN q
    ELSE WithClause(q, "CLUSTERED BY",
             "\nCLUSTERED BY (" \o Join(",", a.clustering_params) \o ") INTO "
                 \o ToString(a.num_buckets) \o " BUCKETS")

\* if clustering_params or num_buckets: both give the clause, one alone a warning.
clustering_clause(q, a) ==
    IF q.raised
       \/ ~(Given(a, "clustering_params", <<>>) \/ Given(a, "num_buckets", 0))
    THEN q
    ELSE IF Given(a, "clustering_params", <<>>) /\ Given(a, "num_buckets", 0)
    THEN WithClause(q, "CLUSTERED BY",
             "\nCLUSTERED BY (" \o Join(",", a.clustering_params) \o ") INTO "
                 \o ToString(a.num_buckets) \o " BUCKETS")
    ELSE [q EXCEPT !.log = Append(@, Log("WARNING", "clustering needs both"))]

\* if serde_properties / tbl_properties: the clause of a property mapping.
properties_clause(q, a, param, clause) ==
    IF q.raised \/ ~Given(a, param, <<>>)
    THEN q
    ELSE WithClause(q, clause,
             "\n" \o clause \o " (" \o format_table_properties(a[param]) \o ")")

\* create_table appending LOCATION before WITH SERDEPROPERTIES.
create_table_location_first(a) ==
    LET q0 == create_table_header(a)
        q1 == field_map_clause(q0, a, "col_params", "COLUMNS", "(")
        q2 == text_clause(q1, a, "tb_desc", "COMMENT", "COMMENT '", "'")
        q3 == field_map_clause(q2, a, "partition_params", "PARTITIONED BY",
                               "PARTITIONED BY (")
        q4 == clustering_clause(q3, a)
        q5 == text_clause(q4, a, "row_format", "ROW FORMAT", "ROW FORMAT '", "'")
        q6 == text_clause(q5, a, "file_format", "STORED AS", "STORED AS ", "")
        q7 == text_clause(q6, a, "location", "LOCATION", "LOCATION '", "'")
        q8 == properties_clause(q7, a, "serde_properties", "WITH SERDEPROPERTIES")
        q9 == properties_clause(q8, a, "tbl_properties", "TBLPROPERTIES")
    IN  IF q9.raised THEN q9
        ELSE [q9 EXCEPT !.log = @ \o <<Log("INFO", "end"), Log("INFO", "query")>>]

\* Query(tb_name, db_name, logger).create_table(...)
create_table(a) ==
    LET q0 == create_table_header(a)
        q1 == field_map_clause(q0, a, "col_params", "COLUMNS", "(")
        q2 == text_clause(q1, a, "tb_desc", "COMMENT", "COMMENT '", "'")
        q3 == field_map_clause(q2, a, "partition_params", "PARTITIONED BY",
                               "PARTITIONED BY (")
        q4 == clustering_clause(q3, a)
        q5 == text_clause(q4, a, "row_format", "ROW FORMAT", "ROW FORMAT '", "'")
        q6 == text_clause(q5, a, "file_format", "STORED AS", "STORED AS ", "")
        q7 == properties_clause(q6, a, "serde_properties", "WITH SERDEPROPERTIES")
        q8 == text_clause(q7, a, "location", "LOCATION", "LOCATION '", "'")
        q9 == properties_clause(q8, a, "tbl_properties", "TBLPROPERTIES")
    IN  IF q9.raised THEN q9
        ELSE [q9 EXCEPT !.log = @ \o <<Log("INFO", "end"), Log("INFO", "query")>>]

-----------------------------------------------------------------------------
(* Schema of exercicio2.  A schema node is a record whose DOMAIN is the    *)
(* set of keys the JSON object has among "type", "description" and         *)
(* "properties"; "properties" is a dict of schema nodes.  A call of        *)
(* get_col_data returns [raised, ret, log, schema]: schema is the dict the *)
(* Schema object holds as the call leaves it.                              *)

RECURSIVE get_col_data_loop(_, _, _, _)

\* get_col_data(schema=value) as the loop calls it on an object field spec
\* (a non-empty dict, no filter).
get_col_data_nested(value) ==
    IF "properties" \notin DOMAIN value
    THEN Raised("KeyError", <<Log("INFO", "start")>>)
    ELSE get_col_data_loop(value.properties, 1, <<>>, <<Log("INFO", "start")>>)

\* The for loop of get_col_data over the items of schema["properties"] from
\* item i on, with col_dict and the log so far.
get_col_data_loop(properties, i, col_dict, log) ==
    IF i > Len(properties)
    THEN Returned(col_dict, Append(log, Log("INFO", "end")))
    ELSE LET key == properties[i].k
             value == properties[i].v
         IN  IF "type" \notin DOMAIN value \/ "description" \notin DOMAIN value
             THEN Raised("KeyError", log)
             ELSE IF value.type = "object"
             THEN LET n == get_col_data_nested(value)
                  IN  IF n.raised
                      THEN Raised(n.ret, log \o n.log)
                      ELSE get_col_data_loop(properties, i + 1,
                               Append(col_dict,
                                   Item(key, [type |-> value.type,
                                              description |-> value.description,
                                              properties |-> n.ret])),
                               log \o n.log)
             ELSE get_col_data_loop(properties, i + 1,
                      Append(col_dict,
                          Item(key, [type |-> value.type,
                                     description |-> value.description])),
                      log)

\* The result of a call together with the dict the Schema object then holds.
Leaving(r, self_schema) ==
    [raised |-> r.raised, ret |-> r.ret, log |-> r.log, schema |-> self_schema]

\* Schema(self_schema, logger).get_col_data(filtered_col=...): schema is left
\* to its default, so the dict the object holds is used; a holds filtered_col
\* when it is given.  A truthy filter replaces schema["properties"] in place
\* by the dict of the filtered keys, in the order of the filter.
get_col_data(self_schema, a) ==
    IF "filtered_col" \in DOMAIN a /\ a.filtered_col # <<>>
    THEN IF \/ "properties" \notin DOMAIN self_schema
            \/ \E j \in 1..Len(a.filtered_col) :
                   ~HasKey(self_schema.properties, a.filtered_col[j])
         THEN Leaving(Raised("KeyError", <<Log("INFO", "start")>>), self_schema)
         ELSE LET filtered ==
                      [self_schema EXCEPT !.properties =
                          [j \in 1..Len(a.filtered_col) |->
                              Item(a.filtered_col[j], Get(@, a.filtered_col[j]))]]
              IN  Leaving(get_col_data_loop(filtered.properties, 1, <<>>,
                              <<Log("INFO", "start"), Log("INFO", "filtered")>>),
                          filtered)
    ELSE IF "properties" \notin DOMAIN self_schema
    THEN Leaving(Raised("KeyError", <<Log("INFO", "start")>>), self_schema)
    ELSE Leaving(get_col_data_loop(self_schema.properties, 1, <<>>,
                                   <<Log("INFO", "start")>>),
                 self_schema)

\* Schema(self_schema, logger).get_tb_comment()
get_tb_comment(self_schema) ==
    IF "description" \notin DOMAIN self_schema
    THEN Raised("KeyError", <<Log("INFO", "table comment")>>)
    ELSE Returned(self_schema.description, <<Log("INFO", "table comment")>>)

-----------------------------------------------------------------------------
(* Input domains.  A dict of a domain lists its keys in the order of the   *)
(* name list it is built over.                                             *)

FieldNames == <<"a", "b", "c", "d">>

\* Number of field names of the flat documents and schema nodes.
MaxFields == 2

\* Field names of the root of a nested document, and of its nested objects.
RootNames == <<"a", "b">>

NestedNames == <<"a">>

\* How many field specs of a root schema node may carry a nested schema node.
MaxObjectSpecs == 1

FirstNames(n) == SubSeq(FieldNames, 1, n)

RECURSIVE DictsOver(_, _)
\* All dicts whose keys are among `names` (in that order) and whose values are in V.
DictsOver(names, V) ==
    IF names = <<>> THEN {<<>>}
    ELSE LET n == Len(names)
             prev == DictsOver(SubSeq(names, 1, n - 1), V)
         IN  prev \cup {Append(d, Item(names[n], v)) : d \in prev, v \in V}

RECURSIVE ListsOver(_)
\* All lists of distinct names among `names` (in that order).
ListsOver(names) ==
    IF names = <<>> THEN {<<>>}
    ELSE LET n == Len(names)
             prev == ListsOver(SubSeq(names, 1, n - 1))
         IN  prev \cup {Append(l, names[n]) : l \in prev}

ScalarValues == {Scalar(t, TRUE) : t \in {"str", "int", "bool"}}

\* Values of the fields of a flat document: scalars and the empty object.
LeafValues == ScalarValues \cup {Dict(<<>>)}

FlatDocuments == {Dict(d) : d \in DictsOver(FirstNames(MaxFields), LeafValues)}

NestedObjects == {Dict(d) : d \in DictsOver(NestedNames, LeafValues)}

\* Nested documents: a root object whose fields are scalars or nested objects.
Documents == {Dict(d) : d \in DictsOver(RootNames, ScalarValues \cup NestedObjects)}

\* Types a schema declares: the four of TYPE_MAPPING and one it does not know.
DeclaredTypes == {"string", "integer", "object", "boolean", "array"}

NoKeys == <<>>

\* A JSON object with an optional key: without it, or with one of the values.
Optional(key, values) == {NoKeys} \cup {[k \in {key} |-> v] : v \in values}

\* Field specs that only declare a type (or nothing at all).
LeafSpecs == Optional("type", DeclaredTypes)

\* Schema nodes without nested schema nodes.
FlatSchemas ==
    {r @@ p :
        r \in Optional("required", ListsOver(FirstNames(MaxFields))),
        p \in Optional("properties", DictsOver(FirstNames(MaxFields), LeafSpecs))}

IsObjectSpec(n) == "required" \in DOMAIN n \/ "properties" \in DOMAIN n

\* Field specs that carry a nested schema node: declared object, declared a
\* type the mapping does not know, or declaring no type.
ObjectSpecs ==
    {n \in {t @@ r @@ p :
               t \in Optional("type", {"object", "array"}),
               r \in Optional("required", ListsOver(NestedNames)),
               p \in Optional("properties", DictsOver(NestedNames, LeafSpecs))} :
        IsObjectSpec(n)}

\* Root schema nodes: at most MaxObjectSpecs field specs carry a nested node.
Schemas ==
    {r @@ p :
        r \in Optional("required", ListsOver(RootNames)),
        p \in Optional("properties",
                 {d \in DictsOver(RootNames, LeafSpecs \cup ObjectSpecs) :
                    Cardinality({i \in 1..Len(d) : IsObjectSpec(d[i].v)})
                        <= MaxObjectSpecs})}

-----------------------------------------------------------------------------
(* Harnesses of the validator's functions: a Validation object is built on *)
(* a document and one of its methods is called with a schema node.         *)

Idle ==
    /\ pc = "ready"
    /\ validation = None
    /\ schema_file = None
    /\ calls = <<>>
    /\ queue = <<>>
    /\ result = Returned(FALSE, <<>>)
    /\ args = NoKeys

\* Validation(event, logger).validate_event_not_empty()
CallValidateEventNotEmpty ==
    /\ pc = "ready"
    /\ pc' = "validate_event_not_empty"
    /\ result' = validate_event_not_empty(event)
    /\ UNCHANGED <<event, validation, schema_file, schema, calls, queue, args>>

\* Validation(event, logger).compare_event_fields(schema)
CallCompareEventFields ==
    /\ pc = "ready"
    /\ pc' = "compare_event_fields"
    /\ result' = compare_event_fields(event, schema, None)
    /\ UNCHANGED <<event, validation, schema_file, schema, calls, queue, args>>

\* Validation(event, logger).validate_event_content(schema)
CallValidateEventContent ==
    /\ pc = "ready"
    /\ pc' = "validate_event_content"
    /\ result' = validate_event_content(event, schema, None)
    /\ UNCHANGED <<event, validation, schema_file, schema, calls, queue, args>>

\* Flat documents against schema nodes without nested nodes.
InitFlat == Idle /\ event \in FlatDocuments /\ schema \in FlatSchemas

NextFlat ==
    \/ CallValidateEventNotEmpty
    \/ CallCompareEventFields
    \/ CallValidateEventContent

SpecFlat == InitFlat /\ [][NextFlat]_vars

\* Nested documents against schema nodes with nested nodes.
InitContent == Idle /\ event \in Documents /\ schema \in Schemas

NextContent == CallValidateEventContent

SpecContent == InitContent /\ [][NextContent]_vars

-----------------------------------------------------------------------------
(* exercicio1 handler(event), one action per call it makes.  calls lists   *)
(* the calls made so far: the function, whether it succeeded (returned     *)
(* true, returned a schema, delivered) and, for the sink, the document.    *)

\* Events handed to the handler: documents and values that are no documents.
HandlerEvents ==
    FlatDocuments \cup
    {None, Scalar("str", TRUE), Scalar("str", FALSE), Scalar("int", TRUE),
     Scalar("int", FALSE), Scalar("list", TRUE), Scalar("list", FALSE)}

SchemaFiles ==
    {[error |-> "FileNotFoundError"], [error |-> "JSONDecodeError"]}
    \cup {[json |-> s] : s \in FlatSchemas}

Call(fn, ok) == [fn |-> fn, ok |-> ok]

Init ==
    /\ pc = "handler"
    /\ event \in HandlerEvents
    /\ schema_file \in SchemaFiles
    /\ validation = None
    /\ schema = None
    /\ calls = <<>>
    /\ queue = <<>>
    /\ result = Returned(FALSE, <<>>)
    /\ args = NoKeys

\* logger = create_logger(); validation = Validation(event, logger)
HandlerStart ==
    /\ pc = "handler"
    /\ validation' = event
    /\ pc' = "validate_event_not_empty"
    /\ UNCHANGED <<event, schema_file, schema, calls, queue, result, args>>

HandlerValidateEventNotEmpty ==
    /\ pc = "validate_event_not_empty"
    /\ result' = validate_event_not_empty(validation)
    /\ calls' = Append(calls, Call("validate_event_not_empty", result'.ret))
    /\ pc' = IF result'.ret THEN "validate_event_data_structure" ELSE "done"
    /\ UNCHANGED <<event, validation, schema_file, schema, queue, args>>

HandlerValidateEventDataStructure ==
    /\ pc = "validate_event_data_structure"
    /\ result' = validate_event_data_structure(validation)
    /\ calls' = Append(calls, Call("validate_event_data_structure", result'.ret))
    /\ pc' = IF result'.ret THEN "read_schema" ELSE "done"
    /\ UNCHANGED <<event, validation, schema_file, schema, queue, args>>

\* schema = read_schema(logger); if schema: ...
HandlerReadSchema ==
    /\ pc = "read_schema"
    /\ result' = read_schema(schema_file)
    /\ schema' = result'.ret
    /\ calls' = Append(calls, Call("read_schema", schema' # None))
    /\ pc' = IF schema' # None /\ schema' # NoKeys
             THEN "validate_event_content" ELSE "done"
    /\ UNCHANGED <<event, validation, schema_file, queue, args>>

\* The step of validate_event_content going on to the sink whatever it returned.
HandlerValidateEventContent_ignoring_result ==
    /\ pc = "validate_event_content"
    /\ result' = validate_event_content(validation, schema, None)
    /\ calls' = Append(calls, Call("validate_event_content", ReturnedTrueOf(result')))
    /\ pc' = IF result'.raised THEN "raised" ELSE "send_event_to_queue"
    /\ UNCHANGED <<event, validation, schema_file, schema, queue, args>>

\* if validation.validate_event_content(schema): ...  (an exception leaves handler)
HandlerValidateEventContent ==
    /\ pc = "validate_event_content"
    /\ result' = validate_event_content(validation, schema, None)
    /\ calls' = Append(calls, Call("validate_event_content", ReturnedTrueOf(result')))
    /\ pc' = IF result'.raised THEN "raised"
             ELSE IF result'.ret THEN "send_event_to_queue" ELSE "done"
    /\ UNCHANGED <<event, validation, schema_file, schema, queue, args>>

\* send_event_to_queue(event, "valid-events-queue"): the queue service delivers
\* the message or the client raises; then logger.info.
HandlerSendEventToQueue ==
    /\ pc = "send_event_to_queue"
    /\ \E delivered \in BOOLEAN :
          /\ calls' = Append(calls,
                        [fn |-> "send_event_to_queue", ok |-> delivered, event |-> event])
          /\ queue' = IF delivered
                      THEN Append(queue, [queue_name |-> "valid-events-queue",
                                          body |-> event])
                      ELSE queue
          /\ pc' = IF delivered THEN "done" ELSE "raised"
    /\ UNCHANGED <<event, validation, schema_file, schema, result, args>>

Next ==
    \/ HandlerStart
    \/ HandlerValidateEventNotEmpty
    \/ HandlerValidateEventDataStructure
    \/ HandlerReadSchema
    \/ HandlerValidateEventContent
    \/ HandlerSendEventToQueue

Spec == Init /\ [][Next]_vars

-----------------------------------------------------------------------------
(* Harness of Query.create_table: a Query object is built on a table and a *)
(* database name and create_table is called with some of its parameters.   *)

\* Most clustering columns, and the largest bucket count.
MaxClusterCols == 1

MaxBuckets == 2

ColumnNames == <<"age", "name">>

\* Field maps as Schema.get_col_data returns them: every field spec has
\* "type" and "description", an object field spec has "properties".
FieldMaps ==
    {<<>>,
     <<Item("age", [type |-> "integer", description |-> "d"]),
       Item("address",
            [type |-> "object", description |-> "",
             properties |-> <<Item("street", [type |-> "string", description |-> "s"]),
                              Item("zip", [type |-> "array", description |-> ""])>>])>>}

PartitionMaps == {<<>>, <<Item("dt", [type |-> "string", description |-> ""])>>}

PropertyMaps ==
    {<<>>,
     <<Item("has_encrypted_data", PyValue("bool", TRUE)),
       Item("serialization.format", PyValue("int", 1)),
       Item("parquet.compress", PyValue("str", "SNAPPY"))>>}

CreateTableArgs ==
    {n @@ c @@ d @@ p @@ k @@ b @@ r @@ f @@ s @@ l @@ t :
        n \in {[tb_name |-> "tb_user", db_name |-> "db_people"],
                [tb_name |-> "t", db_name |-> "d"]},
        c \in Optional("col_params", FieldMaps),
        d \in Optional("tb_desc", {"", "users"}),
        p \in Optional("partition_params", PartitionMaps),
        k \in Optional("clustering_params",
                       ListsOver(SubSeq(ColumnNames, 1, MaxClusterCols))),
        b \in Optional("num_buckets", 0..MaxBuckets),
        r \in Optional("row_format", {"serde"}),
        f \in Optional("file_format", {"PARQUET"}),
        s \in Optional("serde_properties", PropertyMaps),
        l \in Optional("location", {"", "s3://bucket/"}),
        t \in Optional("tbl_properties", PropertyMaps)}

InitCreateTable ==
    /\ pc = "ready"
    /\ args \in CreateTableArgs
    /\ event = None
    /\ validation = None
    /\ schema_file = None
    /\ schema = None
    /\ calls = <<>>
    /\ queue = <<>>
    /\ result = Returned(FALSE, <<>>)

CallCreateTable ==
    /\ pc = "ready"
    /\ "tb_name" \in DOMAIN args
    /\ pc' = "create_table"
    /\ result' = create_table(args)
    /\ UNCHANGED <<event, validation, schema_file, schema, calls, queue, args>>

NextCreateTable == CallCreateTable

SpecCreateTable == InitCreateTable /\ [][NextCreateTable]_vars

-----------------------------------------------------------------------------
(* Harness of the formatter's functions: format_table_columns,             *)
(* format_table_properties and _get_custom_type are called on a Query      *)
(* object, and create_table with a field map alone.  args holds the        *)
(* arguments of the call.                                                  *)

\* Most fields of a top-level field map.
MaxColumns == 2

ColumnFieldNames == <<"age", "address", "name">>

NestedColumnNames == <<"street", "zip">>

Descriptions == {"", "d"}

\* Field specs without a nested field map; "type" and "description" may be missing.
LeafColumnSpecs ==
    {t @@ d : t \in Optional("type", DeclaredTypes),
              d \in Optional("description", Descriptions)}

NestedColumnSpecs ==
    {t @@ d : t \in Optional("type", {"string", "array"}),
              d \in Optional("description", {"s"})}

\* Field specs of an object with its nested field map.
ObjectColumnSpecs ==
    {[type |-> "object"] @@ d @@ [properties |-> p] :
        d \in Optional("description", Descriptions),
        p \in DictsOver(NestedColumnNames, NestedColumnSpecs)}

LeafColumnMaps == DictsOver(SubSeq(ColumnFieldNames, 1, MaxColumns), LeafColumnSpecs)

\* Field maps: at most one of the fields carries a nested field map (put in
\* the place of a field spec that declares an object and nothing else).
ColumnMaps ==
    LeafColumnMaps \cup
    {[mi[1] EXCEPT ![mi[2]].v = o] :
        mi \in {li \in LeafColumnMaps \X (1..MaxColumns) :
                   /\ li[2] <= Len(li[1])
                   /\ li[1][li[2]].v = [type |-> "object"]},
        o \in ObjectColumnSpecs}

FormatColumnsArgs ==
    {[col_dict |-> m, separator |-> sep] : m \in ColumnMaps, sep \in {"", ":"}}

ColumnsOnlyArgs ==
    {[tb_name |-> "tb_user", db_name |-> "db_people", col_params |-> m] :
        m \in ColumnMaps}

PropertyNames == <<"parquet.compress", "has_encrypted_data", "serialization.format">>

PropertyValues ==
    {PyValue("str", "SNAPPY"), PyValue("bool", TRUE), PyValue("bool", FALSE),
     PyValue("int", 1)}

FormatPropertiesArgs ==
    {[tb_properties |-> m] : m \in DictsOver(PropertyNames, PropertyValues)}

PropertiesOnlyArgs ==
    {[tb_name |-> "tb_user", db_name |-> "db_people", tbl_properties |-> m] :
        m \in DictsOver(PropertyNames, PropertyValues)}

\* Mappings a caller may hand to _get_custom_type: the empty one, and two
\* that differ from the TYPE_MAPPING of both modules.
OverrideMappings ==
    {<<>>, [string |-> "text"], [string |-> "text", array |-> "list"]}

\* Calls of _get_custom_type on a Validation or on a Query object.
GetCustomTypeArgs ==
    {[class |-> c, custom_type |-> t] @@ m :
        c \in {"Validation", "Query"},
        t \in DeclaredTypes,
        m \in Optional("custom_type_mapping", OverrideMappings)}

FormatArgs ==
    FormatColumnsArgs \cup ColumnsOnlyArgs \cup FormatPropertiesArgs
        \cup PropertiesOnlyArgs \cup GetCustomTypeArgs

InitFormat ==
    /\ pc = "ready"
    /\ args \in FormatArgs
    /\ event = None
    /\ validation = None
    /\ schema_file = None
    /\ schema = None
    /\ calls = <<>>
    /\ queue = <<>>
    /\ result = Returned(FALSE, <<>>)

\* Query(tb_name, db_name, logger).format_table_columns(col_dict, separator)
CallFormatTableColumns ==
    /\ pc = "ready"
    /\ "col_dict" \in DOMAIN args
    /\ pc' = "format_table_columns"
    /\ result' = format_table_columns(args.col_dict, args.separator)
    /\ UNCHANGED <<event, validation, schema_file, schema, calls, queue, args>>

\* Query(tb_name, db_name, logger).format_table_properties(tb_properties)
CallFormatTableProperties ==
    /\ pc = "ready"
    /\ "tb_properties" \in DOMAIN args
    /\ pc' = "format_table_properties"
    /\ result' = Returned(format_table_properties(args.tb_properties), <<>>)
    /\ UNCHANGED <<event, validation, schema_file, schema, calls, queue, args>>

\* The TYPE_MAPPING of the module of a class.
ModuleTypeMapping(class) ==
    IF class = "Validation" THEN TYPE_MAPPING ELSE Query_TYPE_MAPPING

\* Validation(event, logger)._get_custom_type(custom_type, custom_type_mapping)
\* or Query(tb_name, db_name, logger)._get_custom_type(...)
CallGetCustomType ==
    /\ pc = "ready"
    /\ "custom_type" \in DOMAIN args
    /\ pc' = "_get_custom_type"
    /\ result' = get_custom_type(args, ModuleTypeMapping(args.class))
    /\ UNCHANGED <<event, validation, schema_file, schema, calls, queue, args>>

NextFormat ==
    \/ CallFormatTableColumns
    \/ CallFormatTableProperties
    \/ CallGetCustomType
    \/ CallCreateTable

SpecFormat == InitFormat /\ [][NextFormat]_vars

-----------------------------------------------------------------------------
(* Harness of Schema.get_col_data: a Schema object is built on the schema  *)
(* read from schema_file and get_col_data is called on it a few times,     *)
(* with or without a column filter.  schema is the dict the object holds.  *)

\* Most top-level fields of a schema, and most calls made on a Schema object.
MaxSchemaColumns == 2

MaxCalls == 2

SchemaColumnNames == <<"age", "address", "name">>

TopNames == SubSeq(SchemaColumnNames, 1, MaxSchemaColumns)

\* Field specs of a schema: described fields, fields lacking a key, objects
\* with and without nested properties.
HiveLeafSpecs ==
    {[type |-> "string", description |-> "d"],
     [type |-> "integer", description |-> ""],
     [type |-> "string"],
     [description |-> "d"]}

HiveObjectSpecs ==
    {[type |-> "object", description |-> "d"]}
    \cup {[type |-> "object", description |-> "d", properties |-> p] :
             p \in DictsOver(<<"street">>, {[type |-> "string", description |-> "s"],
                                            [type |-> "string"]})}

\* Schemas as a schema file may hold them, the empty object among them.
HiveSchemas ==
    {d @@ p :
        d \in Optional("description", {"", "users"}),
        p \in Optional("properties",
                 DictsOver(TopNames, HiveLeafSpecs \cup HiveObjectSpecs))}

\* Column filters: not given, or a list of distinct names (as listed, or
\* the other way round).
Reversed(l) == [j \in 1..Len(l) |-> l[Len(l) + 1 - j]]

ColumnFilters ==
    Optional("filtered_col",
             ListsOver(TopNames) \cup {Reversed(l) : l \in ListsOver(TopNames)})

InitSchema ==
    /\ pc = "ready"
    /\ schema_file \in {[json |-> s] : s \in HiveSchemas}
    /\ schema = schema_file.json
    /\ event = None
    /\ validation = None
    /\ calls = <<>>
    /\ queue = <<>>
    /\ result = Returned(FALSE, <<>>)
    /\ args = NoKeys

\* Schema(schema, logger).get_col_data() / .get_col_data(filtered_col=...)
CallGetColData ==
    /\ pc \in {"ready", "get_col_data"}
    /\ Len(calls) < MaxCalls
    /\ \E a \in ColumnFilters :
          /\ args' = a
          /\ result' = get_col_data(schema, a)
          /\ schema' = result'.schema
          /\ calls' = Append(calls, [fn |-> "get_col_data", ok |-> ~result'.raised,
                                     a |-> a, before |-> schema])
    /\ pc' = "get_col_data"
    /\ UNCHANGED <<event, validation, schema_file, queue>>

NextSchema == CallGetColData

SpecSchema == InitSchema /\ [][NextSchema]_vars

-----------------------------------------------------------------------------
(* Harness of type resolution in both exercises: the field specs of one    *)
(* schema node are given to the formatter as a field map, then a document  *)
(* is validated against the node.  calls keeps the formatter's result.     *)

\* Field specs with a description: the four types of the mappings and one
\* neither mapping knows; an object has an empty nested field map.
DescribedSpecs ==
    {[type |-> t, description |-> "d"] : t \in DeclaredTypes \ {"object"}}
    \cup {[type |-> "object", description |-> "d", properties |-> <<>>]}

DescribedSchemas ==
    {[required |-> r, properties |-> p] :
        r \in ListsOver(FirstNames(MaxFields)),
        p \in DictsOver(FirstNames(MaxFields), DescribedSpecs)}

InitResolve ==
    /\ pc = "ready"
    /\ event \in FlatDocuments
    /\ schema \in DescribedSchemas
    /\ args = [col_dict |-> schema.properties, separator |-> ""]
    /\ validation = None
    /\ schema_file = None
    /\ calls = <<>>
    /\ queue = <<>>
    /\ result = Returned(FALSE, <<>>)

\* Validation(event, logger).validate_event_content(schema), after the
\* formatter was called on the field specs of schema.
CallValidateEventContentNext ==
    /\ pc = "format_table_columns"
    /\ calls = <<>>
    /\ calls' = <<[fn |-> "format_table_columns", result |-> result]>>
    /\ pc' = "validate_event_content"
    /\ result' = validate_event_content(event, schema, None)
    /\ UNCHANGED <<event, validation, schema_file, schema, queue, args>>

NextResolve ==
    \/ CallFormatTableColumns
    \/ CallValidateEventContentNext

SpecResolve == InitResolve /\ [][NextResolve]_vars

-----------------------------------------------------------------------------
(* The two recursions step by step.  calls is the call stack: one frame    *)
(* per call of validate_event_content (or of format_table_columns) that    *)
(* has not returned, the innermost last.  result gathers the log and, at   *)
(* the end, holds what the outermost call returned or raised.              *)

\* Deepest schema tree, and deepest document, of the step-by-step runs.
MaxSchemaDepth == 3

MaxDocDepth == 3

RECURSIVE ChainDocuments(_)
\* Documents nested at most n deep below their root: field a holds a text,
\* or a nested document (the empty one too), after an optional text field b.
ChainDocuments(n) ==
    IF n = 0 THEN {Dict(<<>>)}
    ELSE LET inner == ChainDocuments(n - 1) \cup {Scalar("str", TRUE)}
         IN  {Dict(<<>>)}
             \cup {Dict(<<Item("a", v)>>) : v \in inner}
             \cup {Dict(<<Item("b", Scalar("str", TRUE)), Item("a", v)>>) : v \in inner}

RECURSIVE ChainSpecs(_)
\* Field specs whose schema tree is at most n + 1 levels deep.
ChainSpecs(n) ==
    IF n = 0 THEN {[type |-> "string"], [type |-> "object"]}
    ELSE LET below == ChainSpecs(n - 1)
             requireds == {<<>>, <<"a">>, <<"b", "a">>}
         IN  below
             \cup {[type |-> "object", required |-> r] : r \in requireds}
             \cup {[type |-> "object", required |-> r, properties |-> <<Item("a", c)>>] :
                      r \in requireds, c \in below}
             \cup {[type |-> "object", required |-> r,
                    properties |-> <<Item("b", [type |-> "string"]), Item("a", c)>>] :
                      r \in requireds, c \in below}

\* Root schema nodes at most MaxSchemaDepth levels deep.
ChainSchemas ==
    {[k \in DOMAIN n \ {"type"} |-> n[k]] :
        n \in {c \in ChainSpecs(MaxSchemaDepth - 1) : "required" \in DOMAIN c}}

Frame(fn, node, doc, i) == [fn |-> fn, schema |-> node, event |-> doc, i |-> i]

Top == calls[Len(calls)]

Pop == SubSeq(calls, 1, Len(calls) - 1)

\* Validation(event, logger).validate_event_content(schema) is called.
StepValidateCall ==
    /\ pc = "ready"
    /\ event # None
    /\ calls' = <<Frame("validate_event_content", schema, None, 0)>>
    /\ result' = Returned(FALSE, <<>>)
    /\ pc' = "running"
    /\ UNCHANGED <<event, validation, schema_file, schema, queue, args>>

\* Lines 192-196 of the innermost call: the fallback to self.event and
\* compare_event_fields.
StepValidateEnter ==
    /\ pc = "running"
    /\ Top.fn = "validate_event_content"
    /\ Top.i = 0
    /\ LET e == IF ~Truthy(Top.event) THEN event ELSE Top.event
           c == compare_event_fields(event, Top.schema, e)
       IN  IF c.raised
           THEN /\ result' = Raised(c.ret, result.log \o c.log)
                /\ pc' = "raised"
                /\ calls' = calls
           ELSE IF ~c.ret
           THEN /\ result' = Returned(FALSE, result.log \o c.log)
                /\ pc' = "returning"
                /\ calls' = calls
           ELSE /\ result' = [result EXCEPT !.log = @ \o c.log]
                /\ pc' = "running"
                /\ calls' = [calls EXCEPT ![Len(calls)] =
                                 Frame("validate_event_content", Top.schema, e, 1)]
    /\ UNCHANGED <<event, validation, schema_file, schema, queue, args>>

\* The recursive call handing down the schema node of the caller instead of
\* the node of the field.
StepValidateLoop_same_node ==
    /\ pc = "running"
    /\ Top.fn = "validate_event_content"
    /\ Top.i >= 1
    /\ LET sch == Top.schema
           e == Top.event
           i == Top.i
       IN  IF i > Len(e.items)
           THEN /\ result' = Returned(TRUE, Append(result.log, Log("INFO", "content validated")))
                /\ pc' = "returning"
                /\ calls' = calls
           ELSE LET key == e.items[i].k
                    value == e.items[i].v
                IN  IF \/ "properties" \notin DOMAIN sch
                       \/ ~HasKey(sch.properties, key)
                       \/ "type" \notin DOMAIN Get(sch.properties, key)
                    THEN /\ result' = Raised("KeyError", result.log)
                         /\ pc' = "raised"
                         /\ calls' = calls
                    ELSE LET t == Validation_get_custom_type(Get(sch.properties, key).type)
                             log1 == result.log \o t.log
                         IN  IF t.ret = "None"
                             THEN /\ result' = Returned(FALSE, log1)
                                  /\ pc' = "returning"
                                  /\ calls' = calls
                             ELSE IF ~isinstance(value, t.ret)
                             THEN /\ result' = Returned(FALSE,
                                         Append(log1, Log("ERROR", "type mismatch")))
                                  /\ pc' = "returning"
                                  /\ calls' = calls
                             ELSE IF isinstance(value, "dict")
                             THEN /\ result' = [result EXCEPT !.log = log1]
                                  /\ pc' = "running"
                                  /\ calls' = Append(calls,
                                         Frame("validate_event_content", sch, value, 0))
                             ELSE /\ result' = [result EXCEPT !.log = log1]
                                  /\ pc' = "running"
                                  /\ calls' = [calls EXCEPT ![Len(calls)].i = i + 1]
    /\ UNCHANGED <<event, validation, schema_file, schema, queue, args>>

\* One turn of the for loop of the innermost call (lines 198-213): it
\* returns, raises, goes on to the next item, or calls itself on the schema
\* node and the value of the field.
StepValidateLoop ==
    /\ pc = "running"
    /\ Top.fn = "validate_event_content"
    /\ Top.i >= 1
    /\ LET sch == Top.schema
           e == Top.event
           i == Top.i
       IN  IF i > Len(e.items)
           THEN /\ result' = Returned(TRUE, Append(result.log, Log("INFO", "content validated")))
                /\ pc' = "returning"
                /\ calls' = calls
           ELSE LET key == e.items[i].k
                    value == e.items[i].v
                IN  IF \/ "properties" \notin DOMAIN sch
                       \/ ~HasKey(sch.properties, key)
                       \/ "type" \notin DOMAIN Get(sch.properties, key)
                    THEN /\ result' = Raised("KeyError", result.log)
                         /\ pc' = "raised"
                         /\ calls' = calls
                    ELSE LET t == Validation_get_custom_type(Get(sch.properties, key).type)
                             log1 == result.log \o t.log
                         IN  IF t.ret = "None"
                             THEN /\ result' = Returned(FALSE, log1)
                                  /\ pc' = "returning"
                                  /\ calls' = calls
                             ELSE IF ~isinstance(value, t.ret)
                             THEN /\ result' = Returned(FALSE,
                                         Append(log1, Log("ERROR", "type mismatch")))
                                  /\ pc' = "returning"
                                  /\ calls' = calls
                             ELSE IF isinstance(value, "dict")
                             THEN /\ result' = [result EXCEPT !.log = log1]
                                  /\ pc' = "running"
                                  /\ calls' = Append(calls,
                                         Frame("validate_event_content",
                                               Get(sch.properties, key), value, 0))
                             ELSE /\ result' = [result EXCEPT !.log = log1]
                                  /\ pc' = "running"
                                  /\ calls' = [calls EXCEPT ![Len(calls)].i = i + 1]
    /\ UNCHANGED <<event, validation, schema_file, schema, queue, args>>

\* The innermost call returns; its caller returns what it returned (line 210).
StepValidateReturn ==
    /\ pc = "returning"
    /\ Top.fn = "validate_event_content"
    /\ calls' = Pop
    /\ pc' = IF Len(calls) = 1 THEN "done" ELSE "returning"
    /\ UNCHANGED <<event, validation, schema_file, schema, queue, result, args>>

RECURSIVE ChainMaps(_)
\* Field maps nested at most n deep: field a is a plain field, a field
\* lacking a key, or an object with a nested field map; field b is plain.
ChainMaps(n) ==
    IF n = 0 THEN {<<>>}
    ELSE LET plain == [type |-> "string", description |-> "d"]
             specs == {plain,
                       [type |-> "array", description |-> ""],
                       [type |-> "string"],
                       [description |-> "d"],
                       [type |-> "object", description |-> "d"]}
                      \cup {[type |-> "object", description |-> "d", properties |-> m] :
                               m \in ChainMaps(n - 1)}
         IN  {<<>>}
             \cup {<<Item("a", c)>> : c \in specs}
             \cup {<<Item("b", plain), Item("a", c)>> : c \in specs}
             \cup {<<Item("a", c), Item("b", plain)>> : c \in specs}

FormatFrame(col_dict, separator, i, col_data_list) ==
    [fn |-> "format_table_columns", col_dict |-> col_dict, separator |-> separator,
     i |-> i, col_data_list |-> col_data_list]

\* Lines 227-235 for the item a frame is at, col_data being its text so far:
\* the frame with the item's text appended to col_data_list, at the next item.
WithColumn(frame, col_data) ==
    LET value == frame.col_dict[frame.i].v
    IN  [frame EXCEPT
            !.col_data_list =
                Append(@, IF value.description # ""
                          THEN col_data \o " COMMENT '" \o value.description \o "'"
                          ELSE col_data),
            !.i = @ + 1]

\* Line 215 for the item a frame is at: '<key><separator> <type>'.
ColumnHead(frame) ==
    frame.col_dict[frame.i].k \o frame.separator \o " "
        \o Query_get_custom_type(frame.col_dict[frame.i].v.type).ret

\* Query(tb_name, db_name, logger).format_table_columns(col_dict, separator) is called.
StepFormatCall ==
    /\ pc = "ready"
    /\ "col_dict" \in DOMAIN args
    /\ calls' = <<FormatFrame(args.col_dict, args.separator, 1, <<>>)>>
    /\ result' = Returned(FALSE, <<>>)
    /\ pc' = "running"
    /\ UNCHANGED <<event, validation, schema_file, schema, queue, args>>

\* One turn of the for loop of the innermost call (lines 212-235): a missing
\* key raises, an object makes the function call itself on the nested field
\* map with ':', any other field is rendered.
StepFormatLoop ==
    /\ pc = "running"
    /\ Top.fn = "format_table_columns"
    /\ Top.i <= Len(Top.col_dict)
    /\ LET value == Top.col_dict[Top.i].v
       IN  IF "type" \notin DOMAIN value
           THEN /\ result' = Raised("KeyError", result.log)
                /\ pc' = "raised"
                /\ calls' = calls
           ELSE LET log1 == result.log \o Query_get_custom_type(value.type).log
                IN  IF value.type = "object"
                    THEN IF "properties" \notin DOMAIN value
                         THEN /\ result' = Raised("KeyError", log1)
                              /\ pc' = "raised"
                              /\ calls' = calls
                         ELSE /\ result' = [result EXCEPT !.log = log1]
                              /\ pc' = "running"
                              /\ calls' = Append(calls,
                                     FormatFrame(value.properties, ":", 1, <<>>))
                    ELSE IF "description" \notin DOMAIN value
                    THEN /\ result' = Raised("KeyError", log1)
                         /\ pc' = "raised"
                         /\ calls' = calls
                    ELSE /\ result' = [result EXCEPT !.log = log1]
                         /\ pc' = "running"
                         /\ calls' = [calls EXCEPT ![Len(calls)] =
                                          WithColumn(Top, ColumnHead(Top))]
    /\ UNCHANGED <<event, validation, schema_file, schema, queue, args>>

\* The innermost call returns the joined text (line 237); its caller wraps
\* it in ' <' '>' and finishes the item it is at (lines 225-235).
StepFormatReturn ==
    /\ pc = "running"
    /\ Top.fn = "format_table_columns"
    /\ Top.i > Len(Top.col_dict)
    /\ LET text == Join(",\n", Top.col_data_list)
       IN  IF Len(calls) = 1
           THEN /\ result' = Returned(text, result.log)
                /\ pc' = "done"
                /\ calls' = <<>>
           ELSE LET caller == calls[Len(calls) - 1]
                IN  IF "description" \notin DOMAIN caller.col_dict[caller.i].v
                    THEN /\ result' = Raised("KeyError", result.log)
                         /\ pc' = "raised"
                         /\ calls' = Pop
                    ELSE /\ result' = result
                         /\ pc' = "running"
                         /\ calls' = Append(SubSeq(calls, 1, Len(calls) - 2),
                                WithColumn(caller,
                                    ColumnHead(caller) \o " <" \o text \o ">"))
    /\ UNCHANGED <<event, validation, schema_file, schema, queue, args>>

\* A run of the validator on a document and a schema, or of the formatter
\* on a field map.
InitSteps ==
    /\ pc = "ready"
    /\ \/ /\ event \in ChainDocuments(MaxDocDepth)
          /\ schema \in ChainSchemas
          /\ args = NoKeys
       \/ /\ event = None
          /\ schema = None
          /\ args \in {[col_dict |-> m, separator |-> ""] : m \in ChainMaps(MaxSchemaDepth)}
    /\ validation = None
    /\ schema_file = None
    /\ calls = <<>>
    /\ queue = <<>>
    /\ result = Returned(FALSE, <<>>)

NextSteps ==
    \/ StepValidateCall
    \/ StepValidateEnter
    \/ StepValidateLoop
    \/ StepValidateReturn
    \/ StepFormatCall
    \/ StepFormatLoop
    \/ StepFormatReturn

\* The program is sequential: a step that can be taken is taken.
SpecSteps == InitSteps /\ [][NextSteps]_vars /\ WF_vars(NextSteps)

RECURSIVE SchemaDepth(_)
\* The nesting depth of a schema tree: the number of node levels, the root
\* being level 1 and every entry of a node's properties a node one level down.
SchemaDepth(node) ==
    IF "properties" \notin DOMAIN node THEN 1
    ELSE LET below == {0} \cup {SchemaDepth(node.properties[i].v) :
                                   i \in 1..Len(node.properties)}
         IN  1 + CHOOSE d \in below : \A other \in below : other <= d

\* The schema tree a run walks: the schema handed to the validator, or the
\* tree whose root holds the field map handed to the formatter.
RunTree == IF event # None THEN schema ELSE [properties |-> args.col_dict]

RunEnded == pc \in {"done", "raised"}

\* C21: every call of validate_event_content and of format_table_columns on
\* a finite schema tree and a finite document or field map ends (by
\* returning or by raising), and at no moment are there more nested calls
\* on the stack than the schema tree has levels; the fallback to the root
\* event on an empty nested value is one of the runs.
C21_RecursionEndsWithinSchemaDepth ==
    /\ [](Len(calls) <= SchemaDepth(RunTree))
    /\ <>RunEnded

\* A run that has ended in a nested call that got an empty value and fell
\* back to the root event, with as many calls on the stack as the schema has
\* levels: the node of that call has no properties to look the field up in.
C21_Witness ==
    /\ RunEnded
    /\ Len(calls) >= 2
    /\ Len(calls) = SchemaDepth(schema)
    /\ Top.fn = "validate_event_content"
    /\ Top.event = event

-----------------------------------------------------------------------------
(* exercicio2 handler(), one action per call it makes.  The arguments of   *)
(* create_table are evaluated in the order they are written and gathered   *)
(* in args; calls lists the calls made so far; queue holds the statements  *)
(* the query service was started with.                                     *)

TB_NAME == "tb_user"

DB_NAME == "db_people"

PARTITION_PARAMS == <<>>

CLUSTERING_PARAMS == <<"age">>

NUM_BUCKETS == 32

ROW_FORMAT == "org.apache.hadoop.hive.ql.io.parquet.serde.ParquetHiveSerDe"

FILE_FORMAT == "PARQUET"

SERDE_PROPERTIES ==
    <<Item("parquet.compress", PyValue("str", "SNAPPY")),
      Item("serialization.format", PyValue("str", "1"))>>

LOCATION == "s3://iti-query-results/"

TBL_PROPERTIES == <<Item("has_encrypted_data", PyValue("bool", TRUE))>>

\* read_schema of exercicio2: the parsed JSON, or None (logged) when the file
\* is missing or is not JSON.
Hive_read_schema(file) ==
    IF "json" \in DOMAIN file
    THEN Returned(file.json, <<>>)
    ELSE Returned(None, <<Log("ERROR", file.error)>>)

HiveSchemaFiles ==
    {[error |-> "FileNotFoundError"], [error |-> "JSONDecodeError"]}
    \cup {[json |-> s] : s \in HiveSchemas}

InitHive ==
    /\ pc = "handler"
    /\ schema_file \in HiveSchemaFiles
    /\ schema = None
    /\ event = None
    /\ validation = None
    /\ calls = <<>>
    /\ queue = <<>>
    /\ result = Returned(FALSE, <<>>)
    /\ args = NoKeys

\* logger = create_logger(); schema_dict = read_schema(logger); if schema_dict:
\*     schema = Schema(schema_dict, logger); query = Query(TB_NAME, DB_NAME, logger)
HiveHandlerReadSchema ==
    /\ pc = "handler"
    /\ result' = Hive_read_schema(schema_file)
    /\ schema' = result'.ret
    /\ calls' = Append(calls, Call("read_schema", schema' # None))
    /\ IF schema' # None /\ schema' # NoKeys
       THEN /\ pc' = "col_params"
            /\ args' = [tb_name |-> TB_NAME, db_name |-> DB_NAME]
       ELSE /\ pc' = "done"
            /\ args' = args
    /\ UNCHANGED <<event, validation, schema_file, queue>>

\* col_params = schema.get_col_data()
HiveHandlerColParams ==
    /\ pc = "col_params"
    /\ result' = get_col_data(schema, NoKeys)
    /\ schema' = result'.schema
    /\ calls' = Append(calls, Call("get_col_data", ~result'.raised))
    /\ IF result'.raised
       THEN pc' = "raised" /\ args' = args
       ELSE pc' = "tb_desc" /\ args' = args @@ [col_params |-> result'.ret]
    /\ UNCHANGED <<event, validation, schema_file, queue>>

\* tb_desc = schema.get_tb_comment()
HiveHandlerTbDesc ==
    /\ pc = "tb_desc"
    /\ result' = get_tb_comment(schema)
    /\ calls' = Append(calls, Call("get_tb_comment", ~result'.raised))
    /\ IF result'.raised
       THEN pc' = "raised" /\ args' = args
       ELSE pc' = "partition_params" /\ args' = args @@ [tb_desc |-> result'.ret]
    /\ UNCHANGED <<event, validation, schema_file, schema, queue>>

\* partition_params = schema.get_col_data(filtered_col=PARTITION_PARAMS)
HiveHandlerPartitionParams ==
    /\ pc = "partition_params"
    /\ result' = get_col_data(schema, [filtered_col |-> PARTITION_PARAMS])
    /\ schema' = result'.schema
    /\ calls' = Append(calls, Call("get_col_data", ~result'.raised))
    /\ IF result'.raised
       THEN pc' = "raised" /\ args' = args
       ELSE pc' = "create_table" /\ args' = args @@ [partition_params |-> result'.ret]
    /\ UNCHANGED <<event, validation, schema_file, queue>>

\* query_str = query.create_table(col_params=..., ..., tbl_properties=TBL_PROPERTIES)
HiveHandlerCreateTable ==
    /\ pc = "create_table"
    /\ args' = args @@ [clustering_params |-> CLUSTERING_PARAMS,
                        num_buckets |-> NUM_BUCKETS,
                        row_format |-> ROW_FORMAT,
                        file_format |-> FILE_FORMAT,
                        serde_properties |-> SERDE_PROPERTIES,
                        location |-> LOCATION,
                        tbl_properties |-> TBL_PROPERTIES]
    /\ result' = create_table(args')
    /\ calls' = Append(calls, Call("create_table", ~result'.raised))
    /\ pc' = IF result'.raised THEN "raised" ELSE "create_hive_table_with_athena"
    /\ UNCHANGED <<event, validation, schema_file, schema, queue>>

\* create_hive_table_with_athena(query_str): the query service starts the
\* execution of the statement, or the client raises.
HiveHandlerCreateHiveTableWithAthena ==
    /\ pc = "create_hive_table_with_athena"
    /\ \E started \in BOOLEAN :
          /\ calls' = Append(calls, [fn |-> "create_hive_table_with_athena",
                                     ok |-> started, query |-> result.ret])
          /\ queue' = IF started
                      THEN Append(queue, [QueryString |-> result.ret])
                      ELSE queue
          /\ pc' = IF started THEN "done" ELSE "raised"
    /\ UNCHANGED <<event, validation, schema_file, schema, result, args>>

NextHive ==
    \/ HiveHandlerReadSchema
    \/ HiveHandlerColParams
    \/ HiveHandlerTbDesc
    \/ HiveHandlerPartitionParams
    \/ HiveHandlerCreateTable
    \/ HiveHandlerCreateHiveTableWithAthena

SpecHive == InitHive /\ [][NextHive]_vars

-----------------------------------------------------------------------------
(* Claims about the validator.                                             *)

ReturnedTrue(r) == ReturnedTrueOf(r)

ReturnedFalse(r) == ~r.raised /\ r.ret = FALSE

\* Two calls ended the same way: both raised the same, or returned the same.
SameOutcome(r1, r2) == r1.raised = r2.raised /\ r1.ret = r2.ret

\* The calls of the sink made so far.
SinkCalls == {i \in 1..Len(calls) : calls[i].fn = "send_event_to_queue"}

\* At most one call of the sink; it is the fifth call, after the four steps in
\* order, each successful, and it is handed the event; nothing else is queued.
SinkOnlyAfterFullValidation ==
    /\ Cardinality(SinkCalls) <= 1
    /\ \A i \in SinkCalls :
          /\ i = 5
          /\ [j \in 1..4 |-> calls[j].fn] =
                <<"validate_event_not_empty", "validate_event_data_structure",
                  "read_schema", "validate_event_content">>
          /\ \A j \in 1..4 : calls[j].ok
          /\ calls[i].event = event
    /\ (\E j \in 1..Len(calls) : j \notin SinkCalls /\ ~calls[j].ok) => SinkCalls = {}
    /\ Len(queue) <= Cardinality(SinkCalls)
    /\ \A m \in 1..Len(queue) : queue[m].body = event

(* C1: handler calls the sink at most once, only after                     *)
(* validate_event_not_empty, validate_event_data_structure, a non-None     *)
(* schema load and validate_event_content succeeded in that order, never   *)
(* when one of them failed, and with the event no step has modified.       *)
C1_SinkOnlyAfterFullValidation ==
    [](SinkOnlyAfterFullValidation) /\ [][event' = event]_vars

\* The handler ended having delivered the event.
C1_Witness == pc = "done" /\ Len(queue) = 1 /\ queue[1].body = event

(* C2: closed-world field policy.  compare_event_fields never raises on a  *)
(* document; without 'required' in the schema node it returns false; with  *)
(* 'required' and a non-empty document it returns true exactly when the    *)
(* document's field names are the set of the names in 'required'.          *)
C2_ClosedWorldFieldPolicy ==
    pc = "compare_event_fields" =>
        /\ ~result.raised
        /\ "required" \notin DOMAIN schema => result.ret = FALSE
        /\ ("required" \in DOMAIN schema /\ event.items # <<>>) =>
              (result.ret = TRUE <=> Keys(event.items) = Range(schema.required))

\* compare_event_fields accepted a document of two fields.
C2_Witness ==
    /\ pc = "compare_event_fields"
    /\ Len(event.items) = 2
    /\ ReturnedTrue(result)

(* C3: an empty document is never reported valid: on a Validation built on *)
(* the empty document, validate_event_not_empty returns false and          *)
(* validate_event_content returns false, whatever the schema node.         *)
C3_EmptyDocumentNeverValid ==
    (/\ event.items = <<>>
     /\ pc \in {"validate_event_not_empty", "validate_event_content"})
        => ReturnedFalse(result)

\* Index of the first dict-valued field of document d in iteration order, 0 if none.
FirstDictIndex(d) ==
    LET I == {i \in 1..Len(d.items) : d.items[i].v.type = "dict"}
    IN  IF I = {} THEN 0 ELSE CHOOSE i \in I : \A j \in I : i <= j

\* Field i of document d passes the type check of validate_event_content
\* against schema node sch: its declared type resolves and the value is of it.
PassesTypeCheck(sch, d, i) ==
    /\ "properties" \in DOMAIN sch
    /\ HasKey(sch.properties, d.items[i].k)
    /\ "type" \in DOMAIN Get(sch.properties, d.items[i].k)
    /\ Get(sch.properties, d.items[i].k).type \in DOMAIN TYPE_MAPPING
    /\ isinstance(d.items[i].v, TYPE_MAPPING[Get(sch.properties, d.items[i].k).type])

\* The top-level field set equals 'required', the first dict-valued field k
\* is non-empty and has a field spec, and fields 1..checked pass the type check.
FirstNestedCase(checked) ==
    /\ pc = "validate_event_content"
    /\ "required" \in DOMAIN schema
    /\ Keys(event.items) = Range(schema.required)
    /\ FirstDictIndex(event) > 0
    /\ event.items[FirstDictIndex(event)].v.items # <<>>
    /\ "properties" \in DOMAIN schema
    /\ HasKey(schema.properties, event.items[FirstDictIndex(event)].k)
    /\ \A j \in 1..checked : PassesTypeCheck(schema, event, j)

\* validate_event_content(S.properties[k], D[k]) on the same Validation object.
NestedResult ==
    LET k == event.items[FirstDictIndex(event)].k
    IN  validate_event_content(event, Get(schema.properties, k), Get(event.items, k))

\* The document with the value of every field after field i replaced by v.
WithValuesAfter(d, i, v) ==
    Dict([j \in 1..Len(d.items) |->
            IF j > i THEN Item(d.items[j].k, v) ELSE d.items[j]])

\* The schema node without the field specs of the document fields after field i.
WithoutSpecsAfter(sch, d, i) ==
    LET after == {d.items[j].k : j \in (i + 1)..Len(d.items)}
    IN  [sch EXCEPT !.properties = SelectSeq(@, LAMBDA it : it.k \notin after)]

\* The call ends as it does on the document and schema node that hold nothing
\* for the fields after the first nested object (None for each value, no field
\* spec): what the document and the schema hold there is not read.
SiblingsAfterFirstNestedIgnored ==
    SameOutcome(result,
        validate_event_content(
            WithValuesAfter(event, FirstDictIndex(event), None),
            WithoutSpecsAfter(schema, event, FirstDictIndex(event)),
            None))

(* C4 as stated: when the top-level field set equals 'required', the first *)
(* dict-valued field k is non-empty and the fields before k pass the type  *)
(* check, validate_event_content(S, D) ends as                             *)
(* validate_event_content(S.properties[k], D[k]) does, and the fields      *)
(* after k cannot change the result.  Calls that end by raising are left   *)
(* aside here (they are C7's): the statement fails on calls that return.   *)
C4_FirstNestedResultAsStated ==
    (/\ FirstNestedCase(FirstDictIndex(event) - 1)
     /\ ~result.raised
     /\ ~NestedResult.raised) =>
        /\ SameOutcome(result, NestedResult)
        /\ SiblingsAfterFirstNestedIgnored

(* C4 amended: the same, when k itself passes the type check too (its      *)
(* field spec declares 'object').                                          *)
C4_FirstNestedResult ==
    FirstNestedCase(FirstDictIndex(event)) =>
        /\ SameOutcome(result, NestedResult)
        /\ SiblingsAfterFirstNestedIgnored

\* A valid first nested object is followed by a field of the wrong type, and
\* the document is reported valid.
C4_Witness ==
    /\ FirstNestedCase(FirstDictIndex(event))
    /\ FirstDictIndex(event) < Len(event.items)
    /\ \E j \in (FirstDictIndex(event) + 1)..Len(event.items) :
          ~PassesTypeCheck(schema, event, j)
    /\ ReturnedTrue(result)

RECURSIVE HasViolation(_, _)
\* Some field of document d, at this level or inside a nested object, has a
\* value that is not of the type schema node sch declares for it, or some
\* nested object's field set differs from its node's 'required'.
HasViolation(d, sch) ==
    \E i \in 1..Len(d.items) :
        LET key == d.items[i].k
            value == d.items[i].v
        IN  /\ "properties" \in DOMAIN sch
            /\ HasKey(sch.properties, key)
            /\ LET spec == Get(sch.properties, key)
               IN  \/ /\ "type" \in DOMAIN spec
                      /\ spec.type \in DOMAIN TYPE_MAPPING
                      /\ ~isinstance(value, TYPE_MAPPING[spec.type])
                   \/ /\ value.type = "dict"
                      /\ \/ /\ "required" \in DOMAIN spec
                            /\ Keys(value.items) # Range(spec.required)
                         \/ HasViolation(value, spec)

(* C5: validate_event_content returns true only if the event passed all    *)
(* validations: with a field of the wrong type at any level, or a nested   *)
(* object whose field set differs from 'required', it does not return true.*)
C5_TrueOnlyIfAllValid ==
    (pc = "validate_event_content" /\ HasViolation(event, schema))
        => ~ReturnedTrue(result)

\* The schema type of which a value is exactly (bool is boolean, not integer).
ExactType == [str |-> "string", int |-> "integer", bool |-> "boolean", dict |-> "object"]

RECURSIVE WellFormed(_)
\* Every required name has a field spec, every field spec declares one of the
\* four types, every object field spec is a well-formed node itself.
WellFormed(sch) ==
    /\ "required" \in DOMAIN sch
    /\ "properties" \in DOMAIN sch
    /\ Range(sch.required) \subseteq Keys(sch.properties)
    /\ \A i \in 1..Len(sch.properties) :
          LET spec == sch.properties[i].v
          IN  /\ "type" \in DOMAIN spec
              /\ spec.type \in {"string", "integer", "object", "boolean"}
              /\ spec.type = "object" => WellFormed(spec)

RECURSIVE Conforms(_, _)
\* At every level the field set is 'required', every value has the declared
\* type and every nested object is non-empty.
Conforms(d, sch) ==
    /\ Keys(d.items) = Range(sch.required)
    /\ \A i \in 1..Len(d.items) :
          LET spec == Get(sch.properties, d.items[i].k)
              value == d.items[i].v
          IN  /\ ExactType[value.type] = spec.type
              /\ value.type = "dict" => (value.items # <<>> /\ Conforms(value, spec))

(* C6: a document that conforms to a well-formed schema at every level is  *)
(* reported valid.                                                         *)
C6_ConformingAccepted ==
    (pc = "validate_event_content" /\ WellFormed(schema) /\ Conforms(event, schema))
        => ReturnedTrue(result)

\* A conforming document with a boolean field and a nested object was accepted.
C6_Witness ==
    /\ pc = "validate_event_content"
    /\ WellFormed(schema)
    /\ Conforms(event, schema)
    /\ \E i \in 1..Len(event.items) : event.items[i].v.type = "bool"
    /\ FirstDictIndex(event) > 0
    /\ ReturnedTrue(result)

(* C7: validate_event_content always ends by returning a boolean, never by *)
(* raising, whatever the document and the schema node.                     *)
C7_NeverRaises ==
    pc = "validate_event_content" => ~result.raised

\* The document lacks a required field and has a field not in 'required'.
MissingAndUnregistered ==
    /\ "required" \in DOMAIN schema
    /\ Range(schema.required) \ Keys(event.items) # {}
    /\ Keys(event.items) \ Range(schema.required) # {}

(* C18: in compare_event_fields the missing-field check comes before the   *)
(* unregistered-field check: when the document both lacks a required field *)
(* and has a field not in 'required', the call returns false after logging *)
(* exactly one error, the one that reports the missing fields; the         *)
(* unregistered fields are not reported.                                   *)
C18_MissingReportedBeforeUnregistered ==
    (pc = "compare_event_fields" /\ MissingAndUnregistered) =>
        /\ ReturnedFalse(result)
        /\ result.log = <<Log("ERROR", "missing required fields")>>

\* A document with one field, not the one the schema requires, was rejected.
C18_Witness ==
    /\ pc = "compare_event_fields"
    /\ MissingAndUnregistered
    /\ Len(event.items) = 1
    /\ Len(schema.required) = 1
    /\ ReturnedFalse(result)

\* validate_event_content reaches an object-typed field whose value is the
\* empty mapping: the field set is 'required', the first dict-valued field is
\* empty and the fields up to it pass the type check.
ReachesEmptyNestedValue ==
    /\ pc = "validate_event_content"
    /\ "required" \in DOMAIN schema
    /\ Keys(event.items) = Range(schema.required)
    /\ FirstDictIndex(event) > 0
    /\ event.items[FirstDictIndex(event)].v.items = <<>>
    /\ \A j \in 1..FirstDictIndex(event) : PassesTypeCheck(schema, event, j)

(* C19: the empty-document rejection applies at every recursion level:     *)
(* when validate_event_content reaches an object-typed field whose value   *)
(* is the empty mapping, the overall result is false for every schema,     *)
(* also when the nested node's 'required' is empty; the empty nested value *)
(* is never reported valid.                                                *)
C19_EmptyNestedValueRejected ==
    ReachesEmptyNestedValue => ReturnedFalse(result)

-----------------------------------------------------------------------------
(* Claims about create_table.                                              *)

\* The clauses in the order create_table appends them.
ClauseOrder ==
    <<"COLUMNS", "COMMENT", "PARTITIONED BY", "CLUSTERED BY", "ROW FORMAT",
      "STORED AS", "WITH SERDEPROPERTIES", "LOCATION", "TBLPROPERTIES">>

\* The input of a clause was supplied: not None and not empty (for CLUSTERED
\* BY: both the columns and a bucket count that is not zero).
Supplied(clause) ==
    CASE clause = "COLUMNS"        -> "col_params" \in DOMAIN args /\ Len(args.col_params) > 0
      [] clause = "COMMENT"        -> "tb_desc" \in DOMAIN args /\ args.tb_desc # ""
      [] clause = "PARTITIONED BY" ->
            "partition_params" \in DOMAIN args /\ Len(args.partition_params) > 0
      [] clause = "CLUSTERED BY"   ->
            /\ "clustering_params" \in DOMAIN args /\ Len(args.clustering_params) > 0
            /\ "num_buckets" \in DOMAIN args /\ args.num_buckets > 0
      [] clause = "ROW FORMAT"     -> "row_format" \in DOMAIN args /\ args.row_format # ""
      [] clause = "STORED AS"      -> "file_format" \in DOMAIN args /\ args.file_format # ""
      [] clause = "WITH SERDEPROPERTIES" ->
            "serde_properties" \in DOMAIN args /\ Len(args.serde_properties) > 0
      [] clause = "LOCATION"       -> "location" \in DOMAIN args /\ args.location # ""
      [] clause = "TBLPROPERTIES"  ->
            "tbl_properties" \in DOMAIN args /\ Len(args.tbl_properties) > 0

Header == "CREATE EXTERNAL TABLE IF NOT EXISTS " \o args.db_name \o "." \o args.tb_name

(* C8: the statement is the header followed by one clause per supplied     *)
(* input and none for an input not supplied, the clauses in the order      *)
(* column list, COMMENT, PARTITIONED BY, CLUSTERED BY, ROW FORMAT, STORED  *)
(* AS, WITH SERDEPROPERTIES, LOCATION, TBLPROPERTIES.                      *)
C8_ClausesInFixedOrder ==
    pc = "create_table" =>
        /\ ~result.raised
        /\ [i \in 1..Len(result.clauses) |-> result.clauses[i].clause]
              = SelectSeq(ClauseOrder, Supplied)
        /\ result.ret
              = Header \o Join("", [i \in 1..Len(result.clauses) |-> result.clauses[i].text])

\* A statement with every clause but CLUSTERED BY and the column list.
C8_Witness ==
    /\ pc = "create_table"
    /\ Len(result.clauses) = 7
    /\ ~Supplied("COLUMNS")
    /\ ~Supplied("CLUSTERED BY")

(* C9: create_table called with no optional argument returns exactly       *)
(* 'CREATE EXTERNAL TABLE IF NOT EXISTS <db_name>.<tb_name>'.              *)
C9_NoOptionalArgument ==
    (pc = "create_table" /\ DOMAIN args = {"tb_name", "db_name"}) =>
        /\ ~result.raised
        /\ result.ret = "CREATE EXTERNAL TABLE IF NOT EXISTS "
                            \o args.db_name \o "." \o args.tb_name

\* create_table returned for table tb_user of database db_people, nothing else given.
C9_Witness ==
    /\ pc = "create_table"
    /\ args = [tb_name |-> "tb_user", db_name |-> "db_people"]
    /\ result.ret = "CREATE EXTERNAL TABLE IF NOT EXISTS db_people.tb_user"

ColumnsGiven == "clustering_params" \in DOMAIN args /\ Len(args.clustering_params) > 0

BucketsGiven == "num_buckets" \in DOMAIN args /\ args.num_buckets > 0

Warnings(log) == SelectSeq(log, LAMBDA l : l.level = "WARNING")

\* The arguments without the two clustering parameters.
WithoutClustering ==
    [p \in DOMAIN args \ {"clustering_params", "num_buckets"} |-> args[p]]

(* C10: the CLUSTERED BY clause is in the statement iff both clustering    *)
(* columns and a bucket count are supplied (not None, not empty, not       *)
(* zero); with exactly one of them the clause is absent, one warning is    *)
(* logged, the statement is returned and it is the statement of the call   *)
(* without the two; with neither, and with both, no warning is logged.     *)
C10_ClusteringNeedsBoth ==
    pc = "create_table" =>
        /\ ~result.raised
        /\ (\E i \in 1..Len(result.clauses) : result.clauses[i].clause = "CLUSTERED BY")
              <=> (ColumnsGiven /\ BucketsGiven)
        /\ (ColumnsGiven # BucketsGiven) =>
              /\ Len(Warnings(result.log)) = 1
              /\ result.ret = create_table(WithoutClustering).ret
              /\ result.clauses = create_table(WithoutClustering).clauses
        /\ (ColumnsGiven = BucketsGiven) => Len(Warnings(result.log)) = 0

\* Clustering columns without a bucket count: a warning and the other clauses.
C10_Witness ==
    /\ pc = "create_table"
    /\ ColumnsGiven
    /\ "num_buckets" \notin DOMAIN args
    /\ Len(Warnings(result.log)) = 1
    /\ Len(result.clauses) = 8

-----------------------------------------------------------------------------
(* Claims about the formatter's functions.                                 *)

RECURSIVE WellFormedMap(_)
\* Every field spec has a type of the mapping and a description, and an
\* object field spec a well-formed nested field map.
WellFormedMap(m) ==
    \A i \in 1..Len(m) :
        LET spec == m[i].v
        IN  /\ "type" \in DOMAIN spec
            /\ spec.type \in DOMAIN Query_TYPE_MAPPING
            /\ "description" \in DOMAIN spec
            /\ spec.type = "object" =>
                  ("properties" \in DOMAIN spec /\ WellFormedMap(spec.properties))

RECURSIVE Rendering(_, _)
\* '<name><separator> <resolvedType>', for an object ' <' nested rendering
\* with ':' '>', and " COMMENT '<description>'" when there is a description.
FieldRendering(name, separator, spec) ==
    name \o separator \o " " \o Query_TYPE_MAPPING[spec.type]
        \o (IF spec.type = "object"
            THEN " <" \o Rendering(spec.properties, ":") \o ">"
            ELSE "")
        \o (IF spec.description # ""
            THEN " COMMENT '" \o spec.description \o "'"
            ELSE "")

\* The renderings of the fields in insertion order, joined by ',\n'.
Rendering(m, separator) ==
    IF m = <<>> THEN ""
    ELSE IF Len(m) = 1 THEN FieldRendering(m[1].k, separator, m[1].v)
    ELSE Rendering(SubSeq(m, 1, Len(m) - 1), separator) \o ",\n"
             \o FieldRendering(m[Len(m)].k, separator, m[Len(m)].v)

(* C11: format_table_columns renders each field of the map, in insertion   *)
(* order, as '<name><separator> <resolvedType>', then for an object field  *)
(* ' <' + the rendering of its nested field map with separator ':' + '>',  *)
(* then " COMMENT '<description>'" when the description is non-empty, and  *)
(* joins the renderings with ',\n'; the top-level call made by             *)
(* create_table uses the empty separator; {age: integer, description d}    *)
(* with separator '' gives "age tinyint COMMENT 'd'".                      *)
C11_ColumnRendering ==
    /\ (pc = "format_table_columns" /\ WellFormedMap(args.col_dict)) =>
          /\ ~result.raised
          /\ result.ret = Rendering(args.col_dict, args.separator)
    /\ (/\ pc = "format_table_columns"
        /\ args.col_dict = <<Item("age", [type |-> "integer", description |-> "d"])>>
        /\ args.separator = "") =>
          result.ret = "age tinyint COMMENT 'd'"
    /\ (/\ pc = "create_table"
        /\ "col_params" \in DOMAIN args
        /\ args.col_params # <<>>
        /\ WellFormedMap(args.col_params)) =>
          /\ ~result.raised
          /\ result.ret = Header \o "\n(" \o Rendering(args.col_params, "") \o ")"

\* A field map of two fields was rendered with the empty separator: an object
\* with a described nested field, then a described field.
C11_Witness ==
    /\ pc = "format_table_columns"
    /\ args.separator = ""
    /\ WellFormedMap(args.col_dict)
    /\ Len(args.col_dict) = 2
    /\ args.col_dict[1].v.type = "object"
    /\ \E j \in 1..Len(args.col_dict[1].v.properties) :
          args.col_dict[1].v.properties[j].v.description # ""
    /\ args.col_dict[2].v.description # ""
    /\ ~result.raised

\* The textual representation of a value: a text as it is, a boolean as True
\* or False, a number in decimal.
TextOf(v) ==
    CASE v = PyValue("str", "SNAPPY") -> "SNAPPY"
      [] v = PyValue("bool", TRUE)    -> "True"
      [] v = PyValue("bool", FALSE)   -> "False"
      [] v = PyValue("int", 1)        -> "1"

RECURSIVE PropertiesText(_)
\* The entries in insertion order, each "'<key>' = '<value>'", joined by ','.
PropertiesText(m) ==
    IF m = <<>> THEN ""
    ELSE LET n == Len(m)
             entry == "'" \o m[n].k \o "' = '" \o TextOf(m[n].v) \o "'"
         IN  IF n = 1 THEN entry
             ELSE PropertiesText(SubSeq(m, 1, n - 1)) \o "," \o entry

(* C12: format_table_properties renders a property mapping as its entries  *)
(* in insertion order, each "'<key>' = '<textual representation of         *)
(* value>'", joined by ',' with no surrounding text; True renders as the   *)
(* text True, and create_table's clause for {has_encrypted_data: True} is  *)
(* TBLPROPERTIES ('has_encrypted_data' = 'True').                          *)
C12_PropertyRendering ==
    /\ pc = "format_table_properties" =>
          /\ ~result.raised
          /\ result.ret = PropertiesText(args.tb_properties)
    /\ (/\ pc = "format_table_properties"
        /\ args.tb_properties = <<Item("has_encrypted_data", PyValue("bool", TRUE))>>) =>
          result.ret = "'has_encrypted_data' = 'True'"
    /\ (/\ pc = "create_table"
        /\ "tbl_properties" \in DOMAIN args
        /\ args.tbl_properties = <<Item("has_encrypted_data", PyValue("bool", TRUE))>>) =>
          result.ret = Header \o "\nTBLPROPERTIES ('has_encrypted_data' = 'True')"

\* A mapping of three entries, a boolean among them, was rendered.
C12_Witness ==
    /\ pc = "format_table_properties"
    /\ Len(args.tb_properties) = 3
    /\ args.tb_properties[2].v = PyValue("bool", TRUE)
    /\ result.ret =
          "'parquet.compress' = 'SNAPPY','has_encrypted_data' = 'True','serialization.format' = '1'"

\* The field spec lacks 'type', lacks 'description', or declares an object
\* and lacks 'properties'.
LacksKey(spec) ==
    \/ "type" \notin DOMAIN spec
    \/ "description" \notin DOMAIN spec
    \/ ("type" \in DOMAIN spec /\ spec.type = "object" /\ "properties" \notin DOMAIN spec)

\* The fields of field map m whose field spec lacks a key.
FieldsLackingKey(m) == {i \in 1..Len(m) : LacksKey(m[i].v)}

\* Exactly one field spec of m lacks a key; its siblings are well formed.
OneFieldLacksKey(m) ==
    /\ Cardinality(FieldsLackingKey(m)) = 1
    /\ \A i \in 1..Len(m) : i \notin FieldsLackingKey(m) => WellFormedMap(<<m[i]>>)

\* Field map m with an empty description for the field specs that have none.
WithEmptyDescriptions(m) ==
    [i \in 1..Len(m) |->
        IF "description" \in DOMAIN m[i].v THEN m[i]
        ELSE Item(m[i].k, m[i].v @@ [description |-> ""])]

Errors(log) == SelectSeq(log, LAMBDA l : l.level = "ERROR")

(* C15: when one field spec in the map passed to format_table_columns      *)
(* lacks 'type', lacks 'description', or is object-typed and lacks         *)
(* 'properties', the call does not raise, an error is logged, and the text *)
(* returned holds the renderings of the sibling fields; a field that lacks *)
(* only its description is rendered without a COMMENT part.                *)
C15_MissingKeyDoesNotAbort ==
    (pc = "format_table_columns" /\ OneFieldLacksKey(args.col_dict)) =>
        /\ ~result.raised
        /\ Len(Errors(result.log)) >= 1
        /\ WellFormedMap(WithEmptyDescriptions(args.col_dict)) =>
              result.ret = Rendering(WithEmptyDescriptions(args.col_dict), args.separator)

\* The fields of field map m whose declared type the formatter's mapping
\* does not know.
FieldsOfUnknownType(m) ==
    {i \in 1..Len(m) : m[i].v.type \notin DOMAIN Query_TYPE_MAPPING}

\* The rendering of a field whose spec has no nested fields: an unresolved
\* type is written as python writes None.
FlatFieldText(name, separator, spec) ==
    name \o separator \o " "
        \o (IF spec.type \in DOMAIN Query_TYPE_MAPPING
            THEN Query_TYPE_MAPPING[spec.type] ELSE "None")
        \o (IF spec.type = "object" THEN " <>" ELSE "")
        \o (IF spec.description # "" THEN " COMMENT '" \o spec.description \o "'" ELSE "")

RECURSIVE AllFieldsText(_, _, _)
\* The joined text of fields 1..n of field map m.
AllFieldsText(m, separator, n) ==
    IF n = 0 THEN ""
    ELSE IF n = 1 THEN FlatFieldText(m[1].k, separator, m[1].v)
    ELSE AllFieldsText(m, separator, n - 1) \o ",\n"
             \o FlatFieldText(m[n].k, separator, m[n].v)

\* Index of the first field of document d, in iteration order, whose declared
\* type the validator's mapping does not know; 0 if there is none.
FirstUnknownIndex(sch, d) ==
    LET I == {i \in 1..Len(d.items) :
                 /\ HasKey(sch.properties, d.items[i].k)
                 /\ Get(sch.properties, d.items[i].k).type \notin DOMAIN TYPE_MAPPING}
    IN  IF I = {} THEN 0 ELSE CHOOSE i \in I : \A j \in I : i <= j

\* The validator gets to the first field of unknown type: the field set is
\* 'required' and the fields before it are scalars of the declared type.
ReachesUnknownType ==
    /\ Keys(event.items) = Range(schema.required)
    /\ FirstUnknownIndex(schema, event) > 0
    /\ \A j \in 1..(FirstUnknownIndex(schema, event) - 1) :
          /\ PassesTypeCheck(schema, event, j)
          /\ event.items[j].v.type # "dict"

(* C16: when a field's declared type has no entry in the type mapping,     *)
(* format_table_columns logs one error for that field and goes on: every   *)
(* field after it is rendered and the call returns the joined text of all  *)
(* fields; validate_event_content stops at the first field of unknown type *)
(* and returns false, with one error logged and whatever the fields after  *)
(* it hold.                                                                *)
C16_UnknownTypeFormatterGoesOnValidatorStops ==
    /\ (pc = "format_table_columns" /\ FieldsOfUnknownType(args.col_dict) # {}) =>
          /\ ~result.raised
          /\ Len(Errors(result.log)) = Cardinality(FieldsOfUnknownType(args.col_dict))
          /\ result.ret = AllFieldsText(args.col_dict, args.separator, Len(args.col_dict))
    /\ (pc = "validate_event_content" /\ ReachesUnknownType) =>
          /\ ReturnedFalse(result)
          /\ Len(Errors(result.log)) = 1
          /\ result =
                validate_event_content(
                    WithValuesAfter(event, FirstUnknownIndex(schema, event), None),
                    WithoutSpecsAfter(schema, event, FirstUnknownIndex(schema, event)),
                    None)

\* A field of unknown type came first and a field of a known type after it:
\* the formatter rendered both, the validator returned false.
C16_Witness ==
    /\ pc = "validate_event_content"
    /\ Len(args.col_dict) = 2
    /\ FieldsOfUnknownType(args.col_dict) = {1}
    /\ calls[1].result = Returned("a None COMMENT 'd',\nb varchar COMMENT 'd'",
                                  <<Log("ERROR", "custom type not found")>>)
    /\ ReachesUnknownType
    /\ FirstUnknownIndex(schema, event) = 1
    /\ Len(event.items) = 2
    /\ ReturnedFalse(result)

\* The lookup of custom type t in mapping M: M[t] and nothing logged, or no
\* result and one error logged.
LookupIn(M, t) ==
    IF t \in DOMAIN M
    THEN result = Returned(M[t], <<>>)
    ELSE ~result.raised /\ result.ret = "None" /\ Len(Errors(result.log)) = 1

(* C17: _get_custom_type resolves a custom type in the mapping the caller  *)
(* supplies and uses the module's TYPE_MAPPING only when none is supplied: *)
(* for every supplied mapping M, the empty one included, the result is     *)
(* M[t] when t is a key of M, and otherwise the lookup fails (no result,   *)
(* one error logged) even if TYPE_MAPPING has an entry for t.              *)
C17_OverrideMappingIsUsed ==
    pc = "_get_custom_type" =>
        IF "custom_type_mapping" \in DOMAIN args
        THEN LookupIn(args.custom_type_mapping, args.custom_type)
        ELSE LookupIn(ModuleTypeMapping(args.class), args.custom_type)

-----------------------------------------------------------------------------
(* Claims about Schema.get_col_data.                                       *)

(* C13: get_col_data leaves the caller's schema unchanged: after any       *)
(* sequence of get_col_data calls, with or without a column filter, the    *)
(* schema the Schema object holds equals what it was before the calls, and *)
(* an unfiltered call then returns the data of all columns.                *)
C13_SchemaLeftUnchanged ==
    pc = "get_col_data" =>
        /\ schema = schema_file.json
        /\ (~result.raised /\ "filtered_col" \notin DOMAIN args) =>
              Keys(result.ret) = Keys(schema_file.json.properties)

(* C20: get_col_data(filtered_col=L) returns column data for exactly the   *)
(* field names in L, for every list L of existing top-level field names,   *)
(* the empty list included.                                                *)
C20_FilterReturnsExactlyListed ==
    (/\ pc = "get_col_data"
     /\ "filtered_col" \in DOMAIN args
     /\ "properties" \in DOMAIN calls[Len(calls)].before
     /\ Range(args.filtered_col) \subseteq Keys(calls[Len(calls)].before.properties)
     /\ ~result.raised) =>
        Keys(result.ret) = Range(args.filtered_col)

-----------------------------------------------------------------------------
(* Claims about exercicio2 handler().                                      *)

CallsOf(fn) == {i \in 1..Len(calls) : calls[i].fn = fn}

\* The handler has ended: it returned, or an exception left it.
HiveHandlerEnded == pc \in {"done", "raised"}

\* The schema was loaded: the schema file held JSON and read_schema returned
\* a schema that `if schema_dict` takes for one (not the empty object).
SchemaLoaded == "json" \in DOMAIN schema_file /\ schema_file.json # NoKeys

\* The sink is called at most once, right after create_table returned and
\* with the statement it returned; only started statements are queued.
AthenaOnlyAfterCreateTable ==
    /\ Cardinality(CallsOf("create_hive_table_with_athena")) <= 1
    /\ \A i \in CallsOf("create_hive_table_with_athena") :
          /\ i > 1
          /\ calls[i - 1] = Call("create_table", TRUE)
          /\ Cardinality(CallsOf("create_table")) = 1
          /\ ~result.raised
          /\ calls[i].query = result.ret
          /\ result.ret = create_table(args).ret
    /\ Len(queue) <= Cardinality(CallsOf("create_hive_table_with_athena"))
    /\ \A m \in 1..Len(queue) : queue[m].QueryString = result.ret

\* Without a schema nothing of the pipeline runs.
NoSchemaNoPipeline ==
    (calls # <<>> /\ ~SchemaLoaded) =>
        /\ HiveHandlerEnded
        /\ CallsOf("create_hive_table_with_athena") = {}
        /\ CallsOf("get_col_data") = {}
        /\ CallsOf("create_table") = {}

(* C14: in exercicio2 handler() the sink create_hive_table_with_athena is  *)
(* called exactly once when the schema was loaded, with the statement text *)
(* returned by create_table and after create_table has returned; when the  *)
(* schema load yields None the sink is never called and neither            *)
(* get_col_data nor create_table runs.                                     *)
C14_AthenaOncePerLoadedSchema ==
    /\ AthenaOnlyAfterCreateTable
    /\ NoSchemaNoPipeline
    /\ (HiveHandlerEnded /\ SchemaLoaded) =>
          Cardinality(CallsOf("create_hive_table_with_athena")) = 1

-----------------------------------------------------------------------------
(* The type check of validate_event_content, pair by pair.                 *)

\* The run is validate_event_content on a document without nested fields
\* of its own (its values are scalars or the empty object), whose field set
\* equals 'required' and whose fields are all declared with one of the four
\* types of TYPE_MAPPING.
TypedFlatCase ==
    /\ pc = "validate_event_content"
    /\ event.items # <<>>
    /\ "required" \in DOMAIN schema
    /\ Keys(event.items) = Range(schema.required)
    /\ "properties" \in DOMAIN schema
    /\ \A i \in 1..Len(event.items) :
          /\ HasKey(schema.properties, event.items[i].k)
          /\ "type" \in DOMAIN Get(schema.properties, event.items[i].k)
          /\ Get(schema.properties, event.items[i].k).type
                \in {"string", "integer", "object", "boolean"}

DeclaredTypeOf(i) == Get(schema.properties, event.items[i].k).type

\* The pairs of runtime kind and declared type said to pass: the kind is the
\* declared type, or the value is a boolean in a field declared integer.
KindPasses(i) ==
    \/ ExactType[event.items[i].v.type] = DeclaredTypeOf(i)
    \/ event.items[i].v.type = "bool" /\ DeclaredTypeOf(i) = "integer"

TypeMismatchLogged == \E n \in 1..Len(result.log) : result.log[n].msg = "type mismatch"

(* C22: the type check is not exact for booleans.  With the field set      *)
(* equal to 'required', a boolean in a field declared integer passes and   *)
(* an integer in a field declared boolean fails; for every other pair of   *)
(* runtime kind and declared type among string, integer, object and        *)
(* boolean the value passes exactly when its kind is the declared type.    *)
(* A field that is reached and does not pass ends the run with false and   *)
(* the type error logged; when every field passes no type error is logged, *)
(* and the document is accepted if it holds scalars only.                  *)
C22_TypeCheckPairs ==
    TypedFlatCase =>
        /\ \A i \in 1..Len(event.items) :
              (/\ \A j \in 1..(i - 1) : KindPasses(j) /\ event.items[j].v.type # "dict"
               /\ ~KindPasses(i))
                 => (ReturnedFalse(result) /\ TypeMismatchLogged)
        /\ (\A i \in 1..Len(event.items) : KindPasses(i))
              => /\ ~TypeMismatchLogged
                 /\ (\A i \in 1..Len(event.items) : event.items[i].v.type # "dict")
                       => ReturnedTrue(result)

\* A document with a boolean in a field declared integer was accepted.
C22_Witness ==
    /\ TypedFlatCase
    /\ \E i \in 1..Len(event.items) :
          event.items[i].v.type = "bool" /\ DeclaredTypeOf(i) = "integer"
    /\ ReturnedTrue(result)

\* An integer in a field declared boolean was refused with the type error.
C22_IntegerInBooleanRefused ==
    /\ TypedFlatCase
    /\ event.items[1].v.type = "int"
    /\ DeclaredTypeOf(1) = "boolean"
    /\ ReturnedFalse(result)
    /\ TypeMismatchLogged

====
